---- MODULE Spec2Model ----
(***************************************************************************)
(* A model of ig-downloader: the transfer engine and batch orchestrator    *)
(* (downloader: sanitizeFilename, withRetry, downloadFile, downloadVideo,  *)
(* batchDownload), the history store (HistoryManager), the extractor       *)
(* (InstagramExtractor) and the run command (cmdRun).                      *)
(*                                                                         *)
(* Strings are sequences of one-character strings.  An optional value is   *)
(* a record [some, val].                                                   *)
(***************************************************************************)
EXTENDS Integers, Sequences, FiniteSets, TLC

\* ------------------------------------------------------------------------
\* Bounds of the model
\* ------------------------------------------------------------------------

\* Longest task list handed to batchDownload.
MaxTasks == 4

\* Most posts a profile shows.
MaxLinks == 3

\* Most responses a page's traffic holds while extractFromPost listens.
MaxResponses == 3

\* Longest scrollTimeout, in 2000 ms scroll waits.
MaxCaption == 4

MaxWaits == 5

\* ------------------------------------------------------------------------
\* Program constants
\* ------------------------------------------------------------------------

MAX_RETRIES == 3

RETRY_BASE_DELAY_MS == 1000

DOWNLOAD_BATCH_SIZE == 3

MAX_FILENAME_LENGTH == 80

\* ------------------------------------------------------------------------
\* Strings
\* ------------------------------------------------------------------------

None == [some |-> FALSE, val |-> <<>>]

Some(v) == [some |-> TRUE, val |-> v]

\* "E" stands for a code point of the emoji ranges of sanitizeFilename.
EmojiChars == {"E"}

\* \s of the regular expressions, and what trim() removes.
WhitespaceChars == {" "}

\* The class [/\\:*?"<>|].
UnsafeChars == {"/", "\\", ":", "*", "?", "\"", "<", ">", "|"}

Min(a, b) == IF a < b THEN a ELSE b

Pow2(k) == IF k = 0 THEN 1 ELSE IF k = 1 THEN 2 ELSE IF k = 2 THEN 4 ELSE 8

\* s without the characters of class cs: replace(/[cs]/g, "").
RemoveChars(s, cs) == SelectSeq(s, LAMBDA ch : ch \notin cs)

\* The character at place k of s is inside a match of /c\S+/g: the matches
\* are found from left to right, each runs to the end of its run of
\* non-whitespace characters, so k is inside one exactly when its run holds,
\* at k or before it, a c that is followed by a non-whitespace character.
InTag(s, c, k) ==
    \E j \in 1..k :
        /\ s[j] = c
        /\ j < Len(s)
        /\ s[j + 1] \notin WhitespaceChars
        /\ \A i \in j..k : s[i] \notin WhitespaceChars

\* The hashtag and mention patterns removing nothing.
KeepTagged(s, c) == s

\* replace(/c\S+/g, ""): c followed by one or more non-whitespace characters.
RemoveTagged(s, c) ==
    LET marked == [k \in 1..Len(s) |-> IF InTag(s, c, k) THEN "" ELSE s[k]]
    IN SelectSeq(marked, LAMBDA ch : ch # "")

\* The unsafe characters left as they are.
KeepUnsafe(s) == s

\* replace(/[cs]/g, "_").
ReplaceUnsafe(s) == [k \in 1..Len(s) |-> IF s[k] \in UnsafeChars THEN "_" ELSE s[k]]

\* s after its longest prefix of characters of class cs.
DropLeading(s, cs) ==
    LET keep == {k \in 1..Len(s) : s[k] \notin cs}
    IN IF keep = {} THEN <<>>
       ELSE SubSeq(s, CHOOSE k \in keep : \A j \in keep : k <= j, Len(s))

\* s before its longest suffix of characters of class cs.
DropTrailing(s, cs) ==
    LET keep == {k \in 1..Len(s) : s[k] \notin cs}
    IN IF keep = {} THEN <<>>
       ELSE SubSeq(s, 1, CHOOSE k \in keep : \A j \in keep : k >= j)

\* replace(/[\s_]+/g, "_"): each run of whitespace and underscores becomes
\* one underscore.
CollapseSeparators(s) ==
    LET seps == WhitespaceChars \cup {"_"}
        marked == [k \in 1..Len(s) |->
                      IF s[k] \notin seps THEN s[k]
                      ELSE IF k > 1 /\ s[k - 1] \in seps THEN "" ELSE "_"]
    IN SelectSeq(marked, LAMBDA ch : ch # "")

\* caption.trim()
Trim(s) == DropTrailing(DropLeading(s, WhitespaceChars), WhitespaceChars)

\* The chain of replacements of sanitizeFilename, before the length check.
CleanCaption(caption) ==
    LET noEmoji == RemoveChars(caption, EmojiChars)
        noHash == RemoveTagged(noEmoji, "#")
        noMention == RemoveTagged(noHash, "@")
        safe == ReplaceUnsafe(noMention)
        collapsed == CollapseSeparators(safe)
        edges == WhitespaceChars \cup {"_", "."}
    IN Trim(DropTrailing(DropLeading(collapsed, edges), edges))

\* sanitizeFilename without the cut at MAX_FILENAME_LENGTH.
sanitizeUncut(caption, shortCode) ==
    IF ~caption.some \/ Len(Trim(caption.val)) = 0 THEN shortCode
    ELSE LET name == CleanCaption(caption.val)
         IN IF Len(name) = 0 THEN shortCode ELSE name \o <<"_">> \o shortCode

sanitizeFilename(caption, shortCode) ==
    IF ~caption.some \/ Len(Trim(caption.val)) = 0 THEN shortCode
    ELSE LET name == CleanCaption(caption.val)
         IN IF Len(name) = 0 THEN shortCode
            ELSE LET cut == IF Len(name) > MAX_FILENAME_LENGTH
                            THEN DropTrailing(SubSeq(name, 1, MAX_FILENAME_LENGTH), {"_"})
                            ELSE name
                 IN cut \o <<"_">> \o shortCode

\* ------------------------------------------------------------------------
\* The task lists batchDownload is run on
\* ------------------------------------------------------------------------

CodeLetters == <<"A", "B", "C", "D", "E", "F", "G", "H">>

\* The ShortCode of the i-th post.
Code(i) == <<CodeLetters[i]>>

CaptionOf(i) == IF i % 2 = 0 THEN Some(<<"h", "i", " ", "#", "x">>) ELSE None

TaskOf(i) == [videoUrl |-> i, username |-> "natgeo", shortCode |-> Code(i),
              caption |-> CaptionOf(i)]

TaskList(n) == [i \in 1..n |-> TaskOf(i)]

\* ------------------------------------------------------------------------
\* State
\* ------------------------------------------------------------------------

VARIABLES
    tasks,        \* batchDownload: the tasks argument
    bpc,          \* batchDownload: "loop" | "await" | "settled" | "done"
    bi,           \* batchDownload: the loop variable i
    results,      \* batchDownload: what Promise.allSettled returned for the batch
    downloaded,   \* batchDownload: the downloaded list
    failed,       \* batchDownload: the failed list
    completed,    \* batchDownload: the completed counter
    progress,     \* the onProgress calls made, in order
    xfer,         \* per task: the state of its downloadVideo call
    files,        \* the destination file system: path -> size in bytes
    dirs,         \* the directories that exist
    audit,        \* whether hist is kept (it is not part of the program)
    hist,         \* per task: what its fetch attempts did and the delays before them
    args,         \* cmdRun: the parsed arguments (positional, flags)
    history,      \* HistoryManager.data.users: username -> list of DownloadRecord
    disk,         \* the history file as last written by history.save()
    extractor,    \* InstagramExtractor: browser, context, and the pages open
    run,          \* cmdRun: its position and its locals
    ext,          \* extractFromPost: its position, its locals and its outcome
    col,          \* collectReelLinks: its position, its locals and its outcome
    san,          \* sanitizeFilename: its arguments and its result
    cm,           \* ConfigManager: the instances, DEFAULT_CONFIG and the config file
    hm,           \* HistoryManager: data, the history file and the last call
    cron          \* the user's crontab, and the last installer call made on it

\* What batchDownload and its transfers leave alone.
runVars == <<args, history, disk, extractor, run, ext, col, san, cm, hm, cron>>

\* What a step of a downloadVideo call leaves alone.
batchVars == <<tasks, bpc, bi, results, downloaded, failed, completed, progress, audit,
               runVars>>

\* What batchDownload owns.
batchAll == <<tasks, bpc, bi, results, downloaded, failed, completed, progress, audit,
              xfer, files, dirs, hist>>

xferVars == <<xfer, files, dirs, hist>>

vars == <<tasks, bpc, bi, results, downloaded, failed, completed, progress,
          xfer, files, dirs, audit, hist, args, history, disk, extractor, run, ext, col, san,
          cm, hm, cron>>

NoSize == -1

\* join(baseDir, task.username)
UserDir(task) == task.username

\* join(userDir, sanitizeFilename(caption, shortCode) + ".mp4")
FilePath(task) ==
    [dir |-> UserDir(task),
     name |-> sanitizeFilename(task.caption, task.shortCode) \o <<".", "m", "p", "4">>]

dirname_safe(filePath) == filePath.dir

\* A downloadVideo call that has not been made yet.  attempt and lastError
\* are the locals of withRetry and buffer is the local of downloadFile: each
\* is cleared when its scope is left.
IdleXfer ==
    [pc |-> "idle", attempt |-> 0, lastError |-> "", buffer |-> 0,
     settled |-> [status |-> "pending"]]

\* The errors a fetch attempt throws: a rejected fetch, a non-ok status, an
\* empty body.
FetchErrors == {"fetch failed", "HTTP 403 Forbidden", "Empty response body"}

\* hist with event e added to task i's list, when the history is kept.
Logged(i, e) == IF audit THEN [hist EXCEPT ![i] = Append(@, e)] ELSE hist

FetchEvent(error, bytes) == [ev |-> "fetch", err |-> error, n |-> bytes]

WaitEvent(ms) == [ev |-> "wait", err |-> "", n |-> ms]

WriteEvent(bytes) == [ev |-> "write", err |-> "", n |-> bytes]

\* ------------------------------------------------------------------------
\* downloadVideo, downloadFile, withRetry
\* ------------------------------------------------------------------------

\* The return statement of downloadVideo's try block.
SuccessResult(task, size) ==
    [status |-> "fulfilled",
     value |-> [success |-> TRUE, shortCode |-> task.shortCode, filePath |-> FilePath(task),
                size |-> size, error |-> "", caption |-> task.caption]]

\* downloadVideo without its catch block: the error rejects the promise.
DownloadVideoRethrows(task, error) == [status |-> "rejected", reason |-> error]

\* The catch block of downloadVideo: what the call settles to when a step of
\* its try block throws `error`.
DownloadVideoCatch(task, error) ==
    [status |-> "fulfilled",
     value |-> [success |-> FALSE, shortCode |-> task.shortCode, filePath |-> FilePath(task),
                size |-> NoSize, error |-> "Download failed: " \o error,
                caption |-> task.caption]]

\* The downloadVideo call of task i after it has settled to `outcome`.
Settled(i, outcome) == [xfer EXCEPT ![i] = [IdleXfer EXCEPT !.pc = "settled", !.settled = outcome]]

InFlight(i) == xfer[i].pc \notin {"idle", "settled"}

\* await mkdir(userDir, {recursive: true}) succeeds; downloadFile calls
\* withRetry, whose first attempt issues the fetch.
MkdirUserOk(i) ==
    /\ xfer[i].pc = "mkdirUser"
    /\ dirs' = dirs \cup {UserDir(tasks[i])}
    /\ xfer' = [xfer EXCEPT ![i].pc = "fetch", ![i].attempt = 0]
    /\ UNCHANGED <<files, hist, batchVars>>

MkdirUserFail(i) ==
    /\ xfer[i].pc = "mkdirUser"
    /\ xfer' = Settled(i, DownloadVideoCatch(tasks[i], "EACCES mkdir"))
    /\ UNCHANGED <<files, dirs, hist, batchVars>>

\* The length in bytes of the asset the CDN serves at videoUrl (never 0: an
\* empty body is one of the FetchErrors).
AssetBytes(videoUrl) == videoUrl

\* The attempt's fetch returns an ok response with the asset as its body:
\* withRetry returns the buffer and downloadFile calls mkdir(dirname).
FetchOk(i) ==
    /\ xfer[i].pc = "fetch"
    /\ xfer' = [xfer EXCEPT ![i].pc = "mkdirOut",
                            ![i].buffer = AssetBytes(tasks[i].videoUrl),
                            ![i].attempt = 0, ![i].lastError = ""]
    /\ hist' = Logged(i, FetchEvent("", AssetBytes(tasks[i].videoUrl)))
    /\ UNCHANGED <<files, dirs, batchVars>>

\* A backoff that does not double.
RetryDelayFlat(attempt) == RETRY_BASE_DELAY_MS

\* The delay before the attempt after `attempt`.
RetryDelay(attempt) == RETRY_BASE_DELAY_MS * Pow2(attempt)

\* withRetry with the loop bound off by one: a fourth attempt is made.
RetryAgainOffByOne(attempt) == attempt < MAX_RETRIES

\* Whether withRetry waits and tries again after the failure of `attempt`.
RetryAgain(attempt) == attempt < MAX_RETRIES - 1

\* What withRetry throws when its attempts are used up.
RetryThrows(lastError) == lastError

\* A withRetry that keeps the error of its first failed attempt.
FetchFailKeepsFirst(i, error) ==
    /\ xfer[i].pc = "fetch"
    /\ LET first == IF xfer[i].lastError = "" THEN error ELSE xfer[i].lastError
       IN IF RetryAgain(xfer[i].attempt)
          THEN xfer' = [xfer EXCEPT ![i].pc = "backoff", ![i].lastError = first]
          ELSE xfer' = Settled(i, DownloadVideoCatch(tasks[i], RetryThrows(first)))
    /\ hist' = Logged(i, FetchEvent(error, 0))
    /\ UNCHANGED <<files, dirs, batchVars>>

\* The attempt throws: withRetry keeps the error and either waits for the
\* backoff delay or, after the last attempt, throws the last error.
FetchFail(i, error) ==
    /\ xfer[i].pc = "fetch"
    /\ IF RetryAgain(xfer[i].attempt)
       THEN xfer' = [xfer EXCEPT ![i].pc = "backoff", ![i].lastError = error]
       ELSE xfer' = Settled(i, DownloadVideoCatch(tasks[i], RetryThrows(error)))
    /\ hist' = Logged(i, FetchEvent(error, 0))
    /\ UNCHANGED <<files, dirs, batchVars>>

\* The backoff timer fires: the next attempt issues its fetch.
BackoffDone(i) ==
    /\ xfer[i].pc = "backoff"
    /\ xfer' = [xfer EXCEPT ![i].pc = "fetch", ![i].attempt = @ + 1]
    /\ hist' = Logged(i, WaitEvent(RetryDelay(xfer[i].attempt)))
    /\ UNCHANGED <<files, dirs, batchVars>>

\* await mkdir(dirname_safe(outputPath), {recursive: true})
MkdirOutOk(i) ==
    /\ xfer[i].pc = "mkdirOut"
    /\ dirs' = dirs \cup {dirname_safe(FilePath(tasks[i]))}
    /\ xfer' = [xfer EXCEPT ![i].pc = "writeFile"]
    /\ UNCHANGED <<files, hist, batchVars>>

MkdirOutFail(i) ==
    /\ xfer[i].pc = "mkdirOut"
    /\ xfer' = Settled(i, DownloadVideoCatch(tasks[i], "EACCES mkdir"))
    /\ UNCHANGED <<files, dirs, hist, batchVars>>

\* The file system after `bytes` bytes were written to `path`.
Written(path, bytes) ==
    [p \in DOMAIN files \cup {path} |-> IF p = path THEN bytes ELSE files[p]]

\* await writeFile(outputPath, buffer)
WriteFileOk(i) ==
    /\ xfer[i].pc = "writeFile"
    /\ files' = Written(FilePath(tasks[i]), xfer[i].buffer)
    /\ xfer' = [xfer EXCEPT ![i].pc = "stat", ![i].buffer = 0]
    /\ hist' = Logged(i, WriteEvent(xfer[i].buffer))
    /\ UNCHANGED <<dirs, batchVars>>

WriteFileFail(i) ==
    /\ xfer[i].pc = "writeFile"
    /\ xfer' = Settled(i, DownloadVideoCatch(tasks[i], "ENOSPC write"))
    /\ UNCHANGED <<files, dirs, hist, batchVars>>

\* await stat(outputPath): the size of the file as it is now.
StatOk(i) ==
    /\ xfer[i].pc = "stat"
    /\ FilePath(tasks[i]) \in DOMAIN files
    /\ xfer' = Settled(i, SuccessResult(tasks[i], files[FilePath(tasks[i])]))
    /\ UNCHANGED <<files, dirs, hist, batchVars>>

StatFail(i) ==
    /\ xfer[i].pc = "stat"
    /\ xfer' = Settled(i, DownloadVideoCatch(tasks[i], "EIO stat"))
    /\ UNCHANGED <<files, dirs, hist, batchVars>>

\* One step of one downloadVideo call.
TransferStep ==
    \E i \in DOMAIN tasks :
        \/ MkdirUserOk(i)
        \/ MkdirUserFail(i)
        \/ FetchOk(i)
        \/ \E e \in FetchErrors : FetchFail(i, e)
        \/ BackoffDone(i)
        \/ MkdirOutOk(i)
        \/ MkdirOutFail(i)
        \/ WriteFileOk(i)
        \/ WriteFileFail(i)
        \/ StatOk(i)
        \/ StatFail(i)

\* ------------------------------------------------------------------------
\* batchDownload
\* ------------------------------------------------------------------------

\* A slice that loses the last task of every full batch.
BatchIndicesShort(i) == {k \in DOMAIN tasks : i < k /\ k <= i + DOWNLOAD_BATCH_SIZE - 1}

\* No slicing: every remaining task is started at once.
BatchIndicesAll(i) == {k \in DOMAIN tasks : i < k}

\* tasks.slice(i, i + DOWNLOAD_BATCH_SIZE), as the set of its indices (1-based).
BatchIndices(i) == {k \in DOMAIN tasks : i < k /\ k <= i + DOWNLOAD_BATCH_SIZE}

\* The loop test and, when it passes, batch.map(task => downloadVideo(...)):
\* every call of the batch runs to its first await, the mkdir of the user
\* directory.  When the test fails batchDownload returns.
BatchLoop ==
    /\ bpc = "loop"
    /\ IF bi < Len(tasks)
       THEN /\ xfer' = [k \in DOMAIN tasks |->
                          IF k \in BatchIndices(bi)
                          THEN [xfer[k] EXCEPT !.pc = "mkdirUser"]
                          ELSE xfer[k]]
            /\ bpc' = "await"
       ELSE /\ bpc' = "done"
            /\ UNCHANGED xfer
    /\ UNCHANGED <<tasks, bi, results, downloaded, failed, completed, progress, audit,
                   files, dirs, hist, runVars>>

\* The await resolving as soon as one call of the batch has settled.
BatchSettledFirst ==
    /\ bpc = "await"
    /\ \E k \in BatchIndices(bi) : xfer[k].pc = "settled"
    /\ results' = [j \in 1..Cardinality(BatchIndices(bi)) |->
                      IF xfer[bi + j].pc = "settled" THEN xfer[bi + j].settled
                      ELSE [status |-> "rejected", reason |-> "pending"]]
    /\ bpc' = "settled"
    /\ UNCHANGED <<tasks, bi, downloaded, failed, completed, progress, audit, xferVars,
                   runVars>>

\* Promise.allSettled resolves once every call of the batch has settled.
BatchSettled ==
    /\ bpc = "await"
    /\ \A k \in BatchIndices(bi) : xfer[k].pc = "settled"
    /\ results' = [j \in 1..Cardinality(BatchIndices(bi)) |-> xfer[bi + j].settled]
    /\ bpc' = "settled"
    /\ UNCHANGED <<tasks, bi, downloaded, failed, completed, progress, audit, xferVars,
                   runVars>>

\* What the classification loop pushes for one allSettled result.
Classified(result) ==
    IF result.status = "fulfilled" THEN result.value
    ELSE [success |-> FALSE, shortCode |-> <<"u", "n", "k", "n", "o", "w", "n">>,
          filePath |-> [dir |-> "", name |-> <<"u", "n", "k", "n", "o", "w", "n">>],
          size |-> NoSize, error |-> result.reason, caption |-> None]

\* The downloaded list after `for (const result of results)`.
RECURSIVE PushDownloaded(_, _)
PushDownloaded(list, rs) ==
    IF rs = <<>> THEN list
    ELSE PushDownloaded(IF Classified(Head(rs)).success
                        THEN Append(list, Classified(Head(rs))) ELSE list, Tail(rs))

\* The failed list after `for (const result of results)`.
RECURSIVE PushFailed(_, _)
PushFailed(list, rs) ==
    IF rs = <<>> THEN list
    ELSE PushFailed(IF Classified(Head(rs)).success
                    THEN list ELSE Append(list, Classified(Head(rs))), Tail(rs))

\* One onProgress call for the whole batch.
ProgressOncePerBatch(done, total, rs) ==
    IF rs = <<>> THEN <<>>
    ELSE <<[completed |-> done + Len(rs), total |-> total, result |-> Classified(rs[Len(rs)])]>>

\* The onProgress calls of `for (const result of results)`.
ProgressCalls(done, total, rs) ==
    [j \in 1..Len(rs) |-> [completed |-> done + j, total |-> total,
                           result |-> Classified(rs[j])]]

\* The loop over the batch's results, then i += DOWNLOAD_BATCH_SIZE.
BatchClassify ==
    /\ bpc = "settled"
    /\ downloaded' = PushDownloaded(downloaded, results)
    /\ failed' = PushFailed(failed, results)
    /\ completed' = completed + Len(results)
    /\ progress' = progress \o ProgressCalls(completed, Len(tasks), results)
    /\ bi' = bi + DOWNLOAD_BATCH_SIZE
    /\ bpc' = "loop"
    /\ UNCHANGED <<tasks, results, audit, xferVars, runVars>>

\* ------------------------------------------------------------------------
\* The configuration, the profiles and the history the run command works on
\* ------------------------------------------------------------------------

\* A post link: the path shape of its URL and the code that follows it.
Url(shape, code) == [shape |-> shape, code |-> code]

\* url.match(/\/(p|reel|tv)\/([A-Za-z0-9_-]+)/)?.[2]
extractShortCode(url) ==
    IF url.shape \in {"p", "reel", "tv"} /\ url.code # <<>> THEN Some(url.code) ELSE None

\* config.get().users.  maxVideos 0 stands for an absent override.
ConfigUsers ==
    << [username |-> "natgeo", enabled |-> TRUE, maxVideos |-> 0],
       [username |-> "paused", enabled |-> FALSE, maxVideos |-> 0],
       [username |-> "bbcnews", enabled |-> TRUE, maxVideos |-> 1] >>

\* DEFAULT_CONFIG.maxVideosPerUser
MaxVideosPerUser == 20

\* username.replace(/^@/, "").toLowerCase(), on the names the run is given.
Normalize(raw) == IF raw = "@NatGeo" THEN "natgeo" ELSE raw

\* ConfigManager.getEnabledUsers
IsEnabled(u) == u.enabled

\* A getEnabledUsers that does not look at the flag.
getAllUsers == ConfigUsers

getEnabledUsers == SelectSeq(ConfigUsers, IsEnabled)

\* ConfigManager.findUser: the users whose name is the normalized one.
findUser(raw) ==
    LET Named(u) == u.username = Normalize(raw) IN SelectSeq(ConfigUsers, Named)

\* The posts of each profile, in the order the reels view shows them: two
\* posts, a second link to the first post, and a link with no ShortCode.
Catalog(username) ==
    IF username = "natgeo"
    THEN << Url("reel", Code(1)), Url("reel", Code(2)), Url("p", Code(1)), Url("reel", <<>>) >>
    ELSE IF username = "bbcnews"
    THEN << Url("reel", Code(4)), Url("reel", Code(5)) >>
    ELSE << Url("reel", Code(6)) >>

Profile(username) == SubSeq(Catalog(username), 1, Min(MaxLinks, Len(Catalog(username))))

\* The asset extractFromPost finds for a post, and the caption on its page.
AssetUrl(link) == IF link.shape = "p" THEN 2 ELSE 1

PostCaption(link) == IF link.shape = "p" THEN Some(<<"h", "i">>) ELSE None

\* A record already in the history file when the run starts.
OldRecord(username, code) ==
    [shortCode |-> code, filePath |-> [dir |-> username, name |-> code \o <<".", "m", "p", "4">>],
     caption |-> None, size |-> 1]

\* The history files a run may start from: any of natgeo's first two posts
\* and bbcnews's first post may have been downloaded before.
OldHistories ==
    { [u \in {"natgeo", "bbcnews"} |->
          IF u = "natgeo"
          THEN (IF a THEN <<OldRecord(u, Code(1))>> ELSE <<>>)
               \o (IF b THEN <<OldRecord(u, Code(2))>> ELSE <<>>)
          ELSE (IF c THEN <<OldRecord(u, Code(4))>> ELSE <<>>)] :
      a \in BOOLEAN, b \in BOOLEAN, c \in BOOLEAN }

\* ------------------------------------------------------------------------
\* HistoryManager
\* ------------------------------------------------------------------------

\* The downloads list of a user (empty when the user has no entry).
Downloads(h, username) == IF username \in DOMAIN h THEN h[username] ELSE <<>>

\* HistoryManager.getDownloadedShortCodes
getDownloadedShortCodes(h, username) ==
    {Downloads(h, username)[j].shortCode : j \in 1..Len(Downloads(h, username))}

\* HistoryManager.isDownloaded
isDownloaded(h, username, shortCode) == shortCode \in getDownloadedShortCodes(h, username)

\* addRecord pushing without looking for the ShortCode.
addRecordAgain(h, username, record) ==
    [u \in DOMAIN h \cup {username} |->
        IF u = username THEN Append(Downloads(h, u), record) ELSE Downloads(h, u)]

\* HistoryManager.addRecord: ensureUser, then push unless the shortCode is there.
addRecord(h, username, record) ==
    IF isDownloaded(h, username, record.shortCode)
    THEN [u \in DOMAIN h \cup {username} |-> Downloads(h, u)]
    ELSE [u \in DOMAIN h \cup {username} |->
             IF u = username THEN Append(Downloads(h, u), record) ELSE Downloads(h, u)]

\* ------------------------------------------------------------------------
\* cmdRun
\* ------------------------------------------------------------------------

\* parseArgs, on the arguments after the command.  An argument is given by
\* whether it starts with "--" (flag), its text without the dashes and up to
\* a "=" (name), and what follows the "=" if there is one (eq).  The value of
\* a flag is a string or the boolean true.  parsed[i] is what the loop
\* collects from argument i on; a later assignment of a flag replaces an
\* earlier one.
parseArgs(argv) ==
    LET String(text) == [kind |-> "string", text |-> text]
        True == [kind |-> "true", text |-> ""]
        parsed[i \in 1..(Len(argv) + 2)] ==
            IF i > Len(argv) THEN [positional |-> <<>>, flags |-> <<>>]
            ELSE IF ~argv[i].flag
                 THEN [parsed[i + 1] EXCEPT !.positional = <<argv[i].name>> \o @]
            ELSE IF argv[i].eq.some
                 THEN [parsed[i + 1] EXCEPT
                          !.flags = @ @@ (argv[i].name :> String(argv[i].eq.val))]
            ELSE IF i + 1 <= Len(argv) /\ ~argv[i + 1].flag
                 THEN [parsed[i + 2] EXCEPT
                          !.flags = @ @@ (argv[i].name :> String(argv[i + 1].name))]
            ELSE [parsed[i + 1] EXCEPT !.flags = @ @@ (argv[i].name :> True)]
    IN parsed[1]

\* const targetUsername = args.positional[0]
targetUsername == IF args.positional = <<>> THEN None ELSE Some(args.positional[1])

\* const dryRun = args.flags["dry-run"] === true
dryRun == "dry-run" \in DOMAIN args.flags /\ args.flags["dry-run"].kind = "true"

\* cmdRun before its first statement; `collected` counts the links the
\* collectReelLinks calls of the run have returned.
RunStart ==
    [pc |-> "start", users |-> <<>>, ui |-> 0, reelLinks |-> <<>>, newLinks |-> <<>>,
     li |-> 0, tasks |-> <<>>, downloaded |-> <<>>, failed |-> <<>>,
     globalDownloaded |-> 0, globalFailed |-> 0, globalSkipped |-> 0, globalSize |-> 0,
     thrown |-> "", sessionError |-> FALSE, resolved |-> <<>>, before |-> <<>>,
     succeeded |-> {}, collected |-> 0]

NoExtractor == [browser |-> FALSE, context |-> FALSE, pages |-> 0]

\* extractFromPost before it is called; `observed` lists the responses the
\* listener was called with.
ExtractIdle(url) ==
    [pc |-> "idle", url |-> url, captured |-> <<>>, listening |-> FALSE, seen |-> 0,
     observed |-> <<>>,
     result |-> [success |-> FALSE, videos |-> <<>>, error |-> ""], thrown |-> ""]

\* The value of ext in a state in which extractFromPost is modelled by
\* ExtractReturn.
NoExtract == [ExtractIdle(Url("other", <<>>)) EXCEPT !.pc = "none"]

\* collectReelLinks before it is called: its arguments and its locals; of
\* the page's anchors, those after the first `dropped` and up to the
\* `dom`-th are in the DOM; `counts` is the count read in each round.
CollectIdle(username, maxVideos, scrollTimeout) ==
    [pc |-> "idle", username |-> username, maxVideos |-> maxVideos,
     scrollTimeout |-> scrollTimeout, dom |-> 0, dropped |-> 0, reelLinks |-> <<>>, prevCount |-> 0,
     stableRounds |-> 0, elapsed |-> 0, counts |-> <<0>>, exit |-> "",
     result |-> <<>>, thrown |-> ""]

\* The value of col in a state in which collectReelLinks is modelled by
\* CollectReturn.
NoCollect == [CollectIdle("", 0, 0) EXCEPT !.pc = "none"]

\* The value of san in a state in which sanitizeFilename is not being applied.
NoSanitize == [pc |-> "none"]

\* The run variables of a state in which no run command is executing.
RunNotStarted ==
    /\ args = parseArgs(<<>>)
    /\ history = <<>>
    /\ disk = <<>>
    /\ extractor = NoExtractor
    /\ run = [RunStart EXCEPT !.pc = "none"]
    /\ ext = NoExtract
    /\ col = NoCollect
    /\ san = NoSanitize
    /\ cm = [pc |-> "none"]
    /\ cron = [pc |-> "none"]
    /\ hm = [pc |-> "none"]

\* The user of the current loop iteration.
User == run.users[run.ui]

\* `continue`, or the end of the loop body: the next iteration.
Continue(r) == [r EXCEPT !.pc = "user", !.ui = @ + 1]

\* An exception leaves the try block: the finally block runs next.
Raise(r, error) == [r EXCEPT !.pc = "finally", !.thrown = error]

\* Lines 203-230: the users to process, then extractor.initialize().
SelectUsers ==
    /\ run.pc = "start"
    /\ LET found == IF targetUsername.some THEN findUser(targetUsername.val) ELSE <<>>
           usersToProcess == IF targetUsername.some THEN found ELSE getEnabledUsers
       IN run' = IF targetUsername.some /\ found = <<>> THEN [run EXCEPT !.pc = "exit"]
                 ELSE IF usersToProcess = <<>> THEN [run EXCEPT !.pc = "returned"]
                 ELSE [run EXCEPT !.pc = "launch", !.users = usersToProcess]
    /\ UNCHANGED <<args, history, disk, extractor, batchAll, cm, hm, cron, ext, col, san>>

\* initialize(): chromium.launch()
LaunchOk ==
    /\ run.pc = "launch"
    /\ extractor' = [extractor EXCEPT !.browser = TRUE]
    /\ run' = [run EXCEPT !.pc = "context"]
    /\ UNCHANGED <<args, history, disk, batchAll, cm, hm, cron, ext, col, san>>

LaunchFail ==
    /\ run.pc = "launch"
    /\ run' = [run EXCEPT !.pc = "rejected", !.thrown = "launch"]
    /\ UNCHANGED <<args, history, disk, extractor, batchAll, cm, hm, cron, ext, col, san>>

\* initialize(): browser.newContext() and context.route(); the loop is entered.
ContextOk ==
    /\ run.pc = "context"
    /\ extractor' = [extractor EXCEPT !.context = TRUE]
    /\ run' = [run EXCEPT !.pc = "user", !.ui = 1]
    /\ UNCHANGED <<args, history, disk, batchAll, cm, hm, cron, ext, col, san>>

ContextFail ==
    /\ run.pc = "context"
    /\ run' = [run EXCEPT !.pc = "rejected", !.thrown = "newContext"]
    /\ UNCHANGED <<args, history, disk, extractor, batchAll, cm, hm, cron, ext, col, san>>

\* The head of `for (const user of usersToProcess)`: the next user's
\* collectReelLinks call, which awaits createPage(); or the end of the loop.
UserLoop ==
    /\ run.pc = "user"
    /\ run' = IF run.ui > Len(run.users)
              THEN [run EXCEPT !.pc = "finally"]
              ELSE [run EXCEPT !.pc = "collectPage", !.reelLinks = <<>>, !.newLinks = <<>>,
                               !.li = 0, !.tasks = <<>>, !.downloaded = <<>>,
                               !.failed = <<>>, !.sessionError = FALSE, !.resolved = <<>>]
    /\ UNCHANGED <<args, history, disk, extractor, batchAll, cm, hm, cron, ext, col, san>>

\* createPage(): context.newPage() resolves.
NewPageOk(at, next) ==
    /\ run.pc = at
    /\ extractor.context
    /\ extractor' = [extractor EXCEPT !.pages = @ + 1]
    /\ run' = [run EXCEPT !.pc = next]
    /\ UNCHANGED <<args, history, disk, batchAll, cm, hm, cron, ext, col, san>>

\* createPage(): context.newPage() rejects (the browser is gone).  The call
\* is made before the try block of the operation, so the operation rejects.
NewPageFail(at) ==
    /\ run.pc = at
    /\ run' = Raise(run, "newPage")
    /\ UNCHANGED <<args, history, disk, extractor, batchAll, cm, hm, cron, ext, col, san>>

CollectPageOk == NewPageOk("collectPage", "collecting")

CollectPageFail == NewPageFail("collectPage")

\* collectReelLinks rethrowing what its try block caught.
CollectRethrows == [thrown |-> TRUE, links |-> <<>>]

\* The catch block of collectReelLinks.
CollectCatch == [thrown |-> FALSE, links |-> <<>>]

\* user.maxVideos || cfg.maxVideosPerUser
MaxVideos(user) == IF user.maxVideos # 0 THEN user.maxVideos ELSE MaxVideosPerUser

\* What collectReelLinks can return for a user: the links found before it
\* stopped scrolling, at most maxVideos of them.
CollectCounts(user) == 0..Min(MaxVideos(user), Len(Profile(user.username)))

\* collectReelLinks settles (its page closed by the finally block): with the
\* first k links of the profile, or through its catch block.
CollectReturn ==
    /\ run.pc = "collecting"
    /\ \E k \in CollectCounts(User), sessionError \in BOOLEAN :
       LET out == IF sessionError THEN CollectCatch
                  ELSE [thrown |-> FALSE, links |-> SubSeq(Profile(User.username), 1, k)]
       IN run' = IF out.thrown THEN Raise(run, "collect")
                 ELSE [run EXCEPT !.pc = "collected", !.reelLinks = out.links,
                                  !.sessionError = sessionError,
                                  !.collected = @ + Len(out.links)]
    /\ extractor' = [extractor EXCEPT !.pages = @ - 1]
    /\ UNCHANGED <<args, history, disk, batchAll, cm, hm, cron, ext, col, san>>

\* A filter that keeps the links whose ShortCode is in the history.
FilterKnown(links, downloadedCodes) ==
    LET Keep(link) == /\ extractShortCode(link).some
                      /\ extractShortCode(link).val \in downloadedCodes
    IN SelectSeq(links, Keep)

\* A filter that keeps every link that has a ShortCode.
NoFilter(links, downloadedCodes) ==
    LET Keep(link) == extractShortCode(link).some IN SelectSeq(links, Keep)

\* reelLinks.filter(link => code && !downloadedCodes.has(code))
FilterNew(links, downloadedCodes) ==
    LET Keep(link) == /\ extractShortCode(link).some
                      /\ extractShortCode(link).val \notin downloadedCodes
    IN SelectSeq(links, Keep)

\* Lines 246-257: an empty list means nothing found; otherwise the filter.
AfterCollect ==
    /\ run.pc = "collected"
    /\ run' = IF Len(run.reelLinks) = 0 THEN Continue(run)
              ELSE [run EXCEPT !.pc = "filtered",
                               !.newLinks = FilterNew(run.reelLinks,
                                   getDownloadedShortCodes(history, User.username))]
    /\ UNCHANGED <<args, history, disk, extractor, batchAll, cm, hm, cron, ext, col, san>>

\* Lines 259-277: nothing new, or a dry run, or the resolution loop.
AfterFilter ==
    /\ run.pc = "filtered"
    /\ run' = IF Len(run.newLinks) = 0
              THEN Continue([run EXCEPT !.globalSkipped = @ + Len(run.reelLinks)])
              ELSE LET r == [run EXCEPT !.globalSkipped =
                                          @ + Len(run.reelLinks) - Len(run.newLinks)]
                   IN IF dryRun THEN Continue(r)
                      ELSE [r EXCEPT !.pc = "resolve", !.tasks = <<>>, !.li = 1]
    /\ UNCHANGED <<args, history, disk, extractor, batchAll, cm, hm, cron, ext, col, san>>

\* A resolution loop that hands over to batchDownload once a task is built.
ResolveLoopEager ==
    /\ run.pc = "resolve"
    /\ run' = IF run.li > Len(run.newLinks) \/ Len(run.tasks) > 0
              THEN (IF Len(run.tasks) = 0 THEN Continue(run) ELSE [run EXCEPT !.pc = "transfer"])
              ELSE IF ~extractShortCode(run.newLinks[run.li]).some
                   THEN [run EXCEPT !.li = @ + 1]
                   ELSE [run EXCEPT !.pc = "extractPage",
                                    !.resolved = Append(@, run.newLinks[run.li])]
    /\ UNCHANGED <<args, history, disk, extractor, batchAll, cm, hm, cron, ext, col, san>>

\* The head of the resolution loop: the next link's extractFromPost call,
\* which awaits createPage(); after the last link, batchDownload is called
\* unless no task was built.
ResolveLoop ==
    /\ run.pc = "resolve"
    /\ run' = IF run.li > Len(run.newLinks)
              THEN (IF Len(run.tasks) = 0 THEN Continue(run) ELSE [run EXCEPT !.pc = "transfer"])
              ELSE IF ~extractShortCode(run.newLinks[run.li]).some
                   THEN [run EXCEPT !.li = @ + 1]
                   ELSE [run EXCEPT !.pc = "extractPage",
                                    !.resolved = Append(@, run.newLinks[run.li])]
    /\ UNCHANGED <<args, history, disk, extractor, batchAll, cm, hm, cron, ext, col, san>>

ExtractPageOk == NewPageOk("extractPage", "extracting")

ExtractPageFail == NewPageFail("extractPage")

\* What extractFromPost returns once its page exists.
ExtractResults(link) ==
    { [success |-> TRUE, error |-> "",
       videos |-> << [url |-> AssetUrl(link), shortCode |-> extractShortCode(link),
                      caption |-> PostCaption(link)] >>],
      [success |-> FALSE, error |-> "No video URLs captured", videos |-> <<>>],
      [success |-> FALSE, error |-> "Extract error", videos |-> <<>>] }

\* shortCode: best.shortCode || shortCode
TaskFor(user, link, best) ==
    [videoUrl |-> best.url, username |-> user.username,
     shortCode |-> IF best.shortCode.some THEN best.shortCode.val
                   ELSE extractShortCode(link).val,
     caption |-> best.caption]

\* A failed resolution that ends the resolution loop.
ResolutionFailedBreaks(r) ==
    [r EXCEPT !.pc = "resolve", !.li = Len(r.newLinks) + 1, !.globalFailed = @ + 1]

\* A failed resolution that is logged and not counted.
ResolutionFailedUncounted(r) == [r EXCEPT !.pc = "resolve", !.li = @ + 1]

\* Lines 294-296: the failure is logged and counted; the loop goes on.
ResolutionFailed(r) ==
    [r EXCEPT !.pc = "resolve", !.li = @ + 1, !.globalFailed = @ + 1]

\* An extractFromPost that settles with its page left open.
ExtractReturnLeavesPage ==
    /\ run.pc = "extracting"
    /\ \E result \in ExtractResults(run.newLinks[run.li]) :
       run' = IF result.success /\ Len(result.videos) > 0
              THEN [run EXCEPT !.pc = "resolve", !.li = @ + 1,
                               !.tasks = Append(@, TaskFor(User, run.newLinks[run.li],
                                                           result.videos[1]))]
              ELSE ResolutionFailed(run)
    /\ UNCHANGED <<args, history, disk, extractor, batchAll, cm, hm, cron, ext, col, san>>

\* Lines 285-297: extractFromPost settles (its page closed); a task is pushed
\* or the failure is counted.
ExtractReturn ==
    /\ run.pc = "extracting"
    /\ extractor' = [extractor EXCEPT !.pages = @ - 1]
    /\ \E result \in ExtractResults(run.newLinks[run.li]) :
       run' = IF result.success /\ Len(result.videos) > 0
              THEN [run EXCEPT !.pc = "resolve", !.li = @ + 1,
                               !.tasks = Append(@, TaskFor(User, run.newLinks[run.li],
                                                           result.videos[1]))]
              ELSE ResolutionFailed(run)
    /\ UNCHANGED <<args, history, disk, batchAll, cm, hm, cron, ext, col, san>>

\* The errors a failed DownloadResult can carry.
TransferErrors == FetchErrors \cup {"EACCES mkdir", "ENOSPC write", "EIO stat"}

\* How a transfer can end: written in full, or failed with one of the errors.
Fates == {"ok"} \cup TransferErrors

\* What downloadVideo settles to for a task whose transfer ends as `fate`.
TransferResult(task, fate) ==
    IF fate = "ok" THEN SuccessResult(task, AssetBytes(task.videoUrl))
    ELSE DownloadVideoCatch(task, fate)

\* Records added for the failed transfers as well.
RecordAll(h, username, good, bad) ==
    LET all == good \o bad
        F[j \in 0..Len(all)] ==
            IF j = 0 THEN h
            ELSE addRecord(F[j - 1], username,
                           [shortCode |-> all[j].shortCode, filePath |-> all[j].filePath,
                            caption |-> all[j].caption, size |-> all[j].size])
    IN F[Len(all)]

\* Lines 317-324: for (const d of downloaded) history.addRecord(...)
RecordDownloads(h, username, good, bad) ==
    LET F[j \in 0..Len(good)] ==
            IF j = 0 THEN h
            ELSE addRecord(F[j - 1], username,
                           [shortCode |-> good[j].shortCode, filePath |-> good[j].filePath,
                            caption |-> good[j].caption, size |-> good[j].size])
    IN F[Len(good)]

\* The ShortCodes of the tasks whose fate is "ok".
OkCodes(list, fates) == {list[j].shortCode : j \in {k \in DOMAIN list : fates[k] = "ok"}}

\* Lines 307-325: batchDownload returns what the transfers settled to, the
\* records of the downloaded ones are added, and history.save() is awaited.
BatchReturn ==
    /\ run.pc = "transfer"
    /\ \E fates \in [DOMAIN run.tasks -> Fates] :
       LET settled == [j \in DOMAIN run.tasks |-> TransferResult(run.tasks[j], fates[j])]
           good == PushDownloaded(<<>>, settled)
           bad == PushFailed(<<>>, settled)
       IN /\ run' = [run EXCEPT !.pc = "saving", !.downloaded = good, !.failed = bad,
                                !.succeeded = @ \cup {<<User.username, c>> :
                                                       c \in OkCodes(run.tasks, fates)}]
          /\ history' = RecordDownloads(history, User.username, good, bad)
    /\ UNCHANGED <<args, disk, extractor, batchAll, cm, hm, cron, ext, col, san>>

\* downloaded.reduce((sum, d) => sum + (d.size || 0), 0)
RECURSIVE SumSizes(_)
SumSizes(list) ==
    IF list = <<>> THEN 0
    ELSE (IF Head(list).size = NoSize THEN 0 ELSE Head(list).size) + SumSizes(Tail(list))

\* The loop going on with nothing written to the history file.
SaveDeferred ==
    /\ run.pc = "saving"
    /\ run' = Continue([run EXCEPT !.globalDownloaded = @ + Len(run.downloaded),
                                   !.globalFailed = @ + Len(run.failed),
                                   !.globalSize = @ + SumSizes(run.downloaded)])
    /\ UNCHANGED <<args, history, disk, extractor, batchAll, cm, hm, cron, ext, col, san>>

\* Lines 325-339: history.save() resolves; the totals are updated.
SaveOk ==
    /\ run.pc = "saving"
    /\ disk' = history
    /\ run' = Continue([run EXCEPT !.globalDownloaded = @ + Len(run.downloaded),
                                   !.globalFailed = @ + Len(run.failed),
                                   !.globalSize = @ + SumSizes(run.downloaded)])
    /\ UNCHANGED <<args, history, extractor, batchAll, cm, hm, cron, ext, col, san>>

\* history.save() rejects (the history file cannot be written).
SaveFail ==
    /\ run.pc = "saving"
    /\ run' = Raise(run, "save")
    /\ UNCHANGED <<args, history, disk, extractor, batchAll, cm, hm, cron, ext, col, san>>

\* finally { await extractor.close() }, then the summary or the rethrow.
Finally ==
    /\ run.pc = "finally"
    /\ extractor' = [extractor EXCEPT !.context = FALSE, !.browser = FALSE]
    /\ run' = [run EXCEPT !.pc = IF run.thrown = "" THEN "done" ELSE "rejected"]
    /\ UNCHANGED <<args, history, disk, batchAll, cm, hm, cron, ext, col, san>>

NextRun ==
    \/ SelectUsers
    \/ LaunchOk
    \/ LaunchFail
    \/ ContextOk
    \/ ContextFail
    \/ UserLoop
    \/ CollectPageOk
    \/ CollectPageFail
    \/ CollectReturn
    \/ AfterCollect
    \/ AfterFilter
    \/ ResolveLoop
    \/ ExtractPageOk
    \/ ExtractPageFail
    \/ ExtractReturn
    \/ BatchReturn
    \/ SaveOk
    \/ SaveFail
    \/ Finally

\* The batch variables of a state in which batchDownload is modelled by
\* BatchReturn.
BatchNotStarted ==
    /\ tasks = <<>>
    /\ bpc = "none"
    /\ bi = 0
    /\ results = <<>>
    /\ downloaded = <<>>
    /\ failed = <<>>
    /\ completed = 0
    /\ progress = <<>>
    /\ xfer = <<>>
    /\ files = <<>>
    /\ dirs = {}
    /\ audit = FALSE
    /\ hist = <<>>

RunTargets == {None, Some("natgeo"), Some("@NatGeo"), Some("paused"), Some("ghost")}

\* The command lines of `run`: the arguments after the command.  A username
\* or none, alone or followed by --dry-run; and --dry-run before the
\* username.
Argvs ==
    LET Word(t) == IF t.some THEN <<[flag |-> FALSE, name |-> t.val, eq |-> None]>> ELSE <<>>
        Flag(v) == <<[flag |-> TRUE, name |-> "dry-run", eq |-> v]>>
    IN {Word(t) : t \in RunTargets}
         \cup {Word(t) \o Flag(None) : t \in RunTargets}
         \cup {Flag(None) \o Word(Some("natgeo"))}

\* main(): history.load(), then cmdRun(config, history, args).
InitRun ==
    /\ \E argv \in Argvs : args = parseArgs(argv)
    /\ history \in OldHistories
    /\ disk = history
    /\ extractor = NoExtractor
    /\ run = [RunStart EXCEPT !.before = history]
    /\ ext = NoExtract
    /\ col = NoCollect
    /\ san = NoSanitize
    /\ cm = [pc |-> "none"]
    /\ cron = [pc |-> "none"]
    /\ hm = [pc |-> "none"]
    /\ BatchNotStarted

SpecRun == InitRun /\ [][NextRun]_vars

\* ------------------------------------------------------------------------
\* extractFromPost
\* ------------------------------------------------------------------------

\* A response the page's network traffic can hold: whether its URL contains
\* CDN_PATTERN and MP4_PATTERN, its efg parameter, the asset its path names
\* and its bytestart/byteend range.
Response(cdn, mp4, efg, asset, range) ==
    [cdn |-> cdn, mp4 |-> mp4, efg |-> efg, asset |-> asset, range |-> range]

Responses ==
    { Response(TRUE, TRUE, "q60", 1, 0), Response(TRUE, TRUE, "q60", 1, 1),
      Response(TRUE, TRUE, "q90", 1, 0), Response(TRUE, TRUE, "audio", 1, 0),
      Response(TRUE, TRUE, "none", 2, 0), Response(TRUE, TRUE, "garbled", 2, 1),
      Response(FALSE, TRUE, "q90", 3, 0), Response(TRUE, FALSE, "q90", 3, 0) }

\* parseEfgParam: the efg parameter base64-decoded and parsed as JSON; the
\* defaults when it is absent or does not decode.
parseEfgParam(res) ==
    IF res.efg = "q60" THEN [bitrate |-> 1, quality |-> "q60", isAudio |-> FALSE]
    ELSE IF res.efg = "q90" THEN [bitrate |-> 2, quality |-> "q90", isAudio |-> FALSE]
    ELSE IF res.efg = "audio" THEN [bitrate |-> 1, quality |-> "unknown", isAudio |-> TRUE]
    ELSE [bitrate |-> 0, quality |-> "unknown", isAudio |-> FALSE]

\* stripByteRangeParams: the URL without bytestart and byteend.
stripByteRangeParams(res) == [res EXCEPT !.range = 0]

\* The position of the entry of `captured` whose key is cleanUrl, or 0.
KeyIndex(captured, cleanUrl) ==
    IF \E j \in DOMAIN captured : captured[j].url = cleanUrl
    THEN CHOOSE j \in DOMAIN captured : captured[j].url = cleanUrl
    ELSE 0

\* A listener that adds an entry for every matching response.
onResponseAppend(captured, res) ==
    IF ~res.mp4 \/ ~res.cdn THEN captured
    ELSE IF parseEfgParam(res).isAudio THEN captured
    ELSE Append(captured, [url |-> stripByteRangeParams(res),
                           bitrate |-> parseEfgParam(res).bitrate,
                           quality |-> parseEfgParam(res).quality])

\* The response listener of extractFromPost, on the Map `captured` (its
\* entries in insertion order).
onResponse(captured, res) ==
    IF ~res.mp4 \/ ~res.cdn THEN captured
    ELSE IF parseEfgParam(res).isAudio THEN captured
    ELSE LET cleanUrl == stripByteRangeParams(res)
             k == KeyIndex(captured, cleanUrl)
             entry == [url |-> cleanUrl, bitrate |-> parseEfgParam(res).bitrate,
                       quality |-> parseEfgParam(res).quality]
         IN IF k = 0 THEN Append(captured, entry)
            ELSE IF entry.bitrate > captured[k].bitrate THEN [captured EXCEPT ![k] = entry]
            ELSE captured

\* The captured entries left in the order of the Map.
Unsorted(list) == list

\* Array.prototype.sort((a, b) => b.bitrate - a.bitrate): stable, descending.
RECURSIVE InsertByBitrate(_, _)
InsertByBitrate(sorted, v) ==
    IF sorted = <<>> THEN <<v>>
    ELSE IF Head(sorted).bitrate >= v.bitrate
         THEN <<Head(sorted)>> \o InsertByBitrate(Tail(sorted), v)
         ELSE <<v>> \o sorted

RECURSIVE SortByBitrate(_)
SortByBitrate(list) ==
    IF list = <<>> THEN <<>>
    ELSE InsertByBitrate(SortByBitrate(SubSeq(list, 1, Len(list) - 1)), list[Len(list)])

\* extractMetadata: the shortCode of the URL, and the page's caption when
\* page.evaluate succeeds.
extractMetadata(url, evaluated) ==
    [shortCode |-> extractShortCode(url),
     caption |-> IF evaluated THEN PostCaption(url) ELSE None]

\* sorted.map(v => ({ url, quality, bitrate, shortCode, ...metadata }))
Videos(sorted, metadata) ==
    [j \in DOMAIN sorted |->
        [url |-> sorted[j].url, quality |-> sorted[j].quality, bitrate |-> sorted[j].bitrate,
         shortCode |-> metadata.shortCode, caption |-> metadata.caption]]

\* A catch block that returns with no finally block after it.
ExtractCatchNoFinally(e, error) ==
    [e EXCEPT !.pc = "returned", !.listening = FALSE,
              !.result = [success |-> FALSE, videos |-> <<>>,
                          error |-> "Extract error: " \o error]]

\* The catch block of extractFromPost.
ExtractCatch(e, error) ==
    [e EXCEPT !.pc = "closing", !.listening = FALSE,
              !.result = [success |-> FALSE, videos |-> <<>>,
                          error |-> "Extract error: " \o error]]

\* An extractFromPost that asks for a page without looking at the context.
CallExtractFromPostUnchecked ==
    /\ ext.pc = "idle"
    /\ ext' = [ext EXCEPT !.pc = "newPage"]
    /\ UNCHANGED <<extractor, args, history, disk, run, batchAll, cm, hm, cron, col, san>>

\* Line 171: createPage() throws at once when there is no context, and
\* awaits context.newPage() otherwise.
CallExtractFromPost ==
    /\ ext.pc = "idle"
    /\ ext' = IF ~extractor.context
              THEN [ext EXCEPT !.pc = "rejected", !.thrown = "Extractor not initialized"]
              ELSE [ext EXCEPT !.pc = "newPage"]
    /\ UNCHANGED <<extractor, args, history, disk, run, batchAll, cm, hm, cron, col, san>>

\* context.newPage() resolves; the listener is attached and page.goto starts.
CreatePageOk ==
    /\ ext.pc = "newPage"
    /\ extractor' = [extractor EXCEPT !.pages = @ + 1]
    /\ ext' = [ext EXCEPT !.pc = "goto", !.listening = TRUE]
    /\ UNCHANGED <<args, history, disk, run, batchAll, cm, hm, cron, col, san>>

\* context.newPage() rejects: line 171 is before the try block, so the
\* promise of extractFromPost rejects.
CreatePageFail ==
    /\ ext.pc = "newPage"
    /\ ext' = [ext EXCEPT !.pc = "rejected", !.thrown = "Target closed"]
    /\ UNCHANGED <<extractor, args, history, disk, run, batchAll, cm, hm, cron, col, san>>

\* A response arrives while the listener is attached.
ResponseArrives ==
    /\ ext.listening
    /\ ext.seen < MaxResponses
    /\ \E res \in Responses :
         ext' = [ext EXCEPT !.captured = onResponse(@, res), !.seen = @ + 1,
                            !.observed = Append(@, res)]
    /\ UNCHANGED <<extractor, args, history, disk, run, batchAll, cm, hm, cron, col, san>>

\* page.goto resolves; handleLoginPopup is awaited.
GotoOk ==
    /\ ext.pc = "goto"
    /\ ext' = [ext EXCEPT !.pc = "popup"]
    /\ UNCHANGED <<extractor, args, history, disk, run, batchAll, cm, hm, cron, col, san>>

\* The errors the awaited page calls of the try block can throw.
PageErrors(pc) ==
    IF pc = "goto" THEN {"Timeout 60000ms exceeded", "net::ERR_NAME_NOT_RESOLVED"}
    ELSE IF pc \in {"settle", "wait"} THEN {"Target closed"}
    ELSE {}

\* page.goto or page.waitForTimeout rejects: the catch block.
TryFails ==
    /\ \E error \in PageErrors(ext.pc) : ext' = ExtractCatch(ext, error)
    /\ UNCHANGED <<extractor, args, history, disk, run, batchAll, cm, hm, cron, col, san>>

\* handleLoginPopup settles (it swallows its errors); the settle delay starts.
PopupDone ==
    /\ ext.pc = "popup"
    /\ ext' = [ext EXCEPT !.pc = "settle"]
    /\ UNCHANGED <<extractor, args, history, disk, run, batchAll, cm, hm, cron, col, san>>

\* Lines 202-221 once the listener is detached: the zero-asset result, or the
\* sort and the awaited extractMetadata.
AfterOff(e) ==
    IF Len(e.captured) = 0
    THEN [e EXCEPT !.pc = "closing", !.listening = FALSE,
                   !.result = [success |-> FALSE, videos |-> <<>>,
                               error |-> "No video URLs captured"]]
    ELSE [e EXCEPT !.pc = "metadata", !.listening = FALSE]

\* waitForTimeout(DEFAULT_WAIT_MS) resolves: tryPlayVideo when nothing was
\* captured, page.off otherwise.
SettleDone ==
    /\ ext.pc = "settle"
    /\ ext' = IF Len(ext.captured) = 0 THEN [ext EXCEPT !.pc = "play"] ELSE AfterOff(ext)
    /\ UNCHANGED <<extractor, args, history, disk, run, batchAll, cm, hm, cron, col, san>>

\* tryPlayVideo settles (it swallows its errors); the second delay starts.
PlayDone ==
    /\ ext.pc = "play"
    /\ ext' = [ext EXCEPT !.pc = "wait"]
    /\ UNCHANGED <<extractor, args, history, disk, run, batchAll, cm, hm, cron, col, san>>

\* waitForTimeout(3000) resolves; page.off.
WaitDone ==
    /\ ext.pc = "wait"
    /\ ext' = AfterOff(ext)
    /\ UNCHANGED <<extractor, args, history, disk, run, batchAll, cm, hm, cron, col, san>>

\* extractMetadata settles (it swallows its errors): return { success: true, videos }.
MetadataDone ==
    /\ ext.pc = "metadata"
    /\ \E evaluated \in BOOLEAN :
         ext' = [ext EXCEPT !.pc = "closing",
                            !.result = [success |-> TRUE, error |-> "",
                                        videos |-> Videos(SortByBitrate(ext.captured),
                                                          extractMetadata(ext.url, evaluated))]]
    /\ UNCHANGED <<extractor, args, history, disk, run, batchAll, cm, hm, cron, col, san>>

\* finally { await page.close() }: the promise resolves to the result.
ClosePage ==
    /\ ext.pc = "closing"
    /\ extractor' = [extractor EXCEPT !.pages = @ - 1]
    /\ ext' = [ext EXCEPT !.pc = "returned"]
    /\ UNCHANGED <<args, history, disk, run, batchAll, cm, hm, cron, col, san>>

NextExtract ==
    \/ CallExtractFromPost
    \/ CreatePageOk
    \/ CreatePageFail
    \/ ResponseArrives
    \/ GotoOk
    \/ TryFails
    \/ PopupDone
    \/ SettleDone
    \/ PlayDone
    \/ WaitDone
    \/ MetadataDone
    \/ ClosePage

\* The posts extractFromPost is called on.
PostUrls == {Url("reel", Code(1)), Url("p", Code(2)), Url("other", <<>>)}

\* extractFromPost(url) on an extractor that was initialized, or was not.
InitExtract ==
    /\ \E initialized \in BOOLEAN :
         extractor = [browser |-> initialized, context |-> initialized, pages |-> 0]
    /\ \E url \in PostUrls : ext = ExtractIdle(url)
    /\ args = parseArgs(<<>>)
    /\ history = <<>>
    /\ disk = <<>>
    /\ run = [RunStart EXCEPT !.pc = "none"]
    /\ col = NoCollect
    /\ san = NoSanitize
    /\ cm = [pc |-> "none"]
    /\ cron = [pc |-> "none"]
    /\ hm = [pc |-> "none"]
    /\ BatchNotStarted

SpecExtract == InitExtract /\ [][NextExtract]_vars

\* ------------------------------------------------------------------------
\* collectReelLinks
\* ------------------------------------------------------------------------

\* The anchors of a profile's reels view in page order; the first post is
\* shown twice (pinned, and in the grid).
Anchors(username) ==
    IF Profile(username) = <<>> THEN <<>>
    ELSE <<Profile(username)[1]>> \o Profile(username)

\* [...new Set(hrefs)]: the first occurrence of each element, in order.
RECURSIVE Dedup(_)
Dedup(list) ==
    IF list = <<>> THEN <<>>
    ELSE LET front == Dedup(SubSeq(list, 1, Len(list) - 1))
         IN IF \E j \in DOMAIN front : front[j] = list[Len(list)] THEN front
            ELSE Append(front, list[Len(list)])

\* reelLinks without the slice.
Unsliced(links, maxVideos) == links

\* reelLinks.slice(0, maxVideos), maxVideos >= 0.
Sliced(links, maxVideos) == SubSeq(links, 1, Min(maxVideos, Len(links)))

\* The loop is left and the try block returns.
CollectExit(c, exit) ==
    [c EXCEPT !.pc = "closing", !.exit = exit, !.result = Sliced(c.reelLinks, c.maxVideos)]

\* Line 243: createPage() throws at once when there is no context, and
\* awaits context.newPage() otherwise.
CallCollectReelLinks ==
    /\ col.pc = "idle"
    /\ col' = IF ~extractor.context
              THEN [col EXCEPT !.pc = "rejected", !.thrown = "Extractor not initialized"]
              ELSE [col EXCEPT !.pc = "newPage"]
    /\ UNCHANGED <<extractor, args, history, disk, run, ext, san, batchAll, cm, hm, cron>>

\* context.newPage() resolves; page.goto starts.
CollectCreatePageOk ==
    /\ col.pc = "newPage"
    /\ extractor' = [extractor EXCEPT !.pages = @ + 1]
    /\ col' = [col EXCEPT !.pc = "goto"]
    /\ UNCHANGED <<args, history, disk, run, ext, san, batchAll, cm, hm, cron>>

\* context.newPage() rejects: line 243 is before the try block.
CollectCreatePageFail ==
    /\ col.pc = "newPage"
    /\ col' = [col EXCEPT !.pc = "rejected", !.thrown = "Target closed"]
    /\ UNCHANGED <<extractor, args, history, disk, run, ext, san, batchAll, cm, hm, cron>>

\* Lines 246-262: navigation, the login popup and the wait for the first
\* anchors are over; some of the anchors are in the DOM; startTime is taken.
ProfileLoaded ==
    /\ col.pc = "goto"
    /\ \E shown \in 0..Len(Anchors(col.username)) :
         col' = [col EXCEPT !.pc = "loop", !.dom = shown]
    /\ UNCHANGED <<extractor, args, history, disk, run, ext, san, batchAll, cm, hm, cron>>

\* An awaited page call of the try block rejects (navigation, evaluation,
\* scrolling): the catch block.
CollectTryFails ==
    /\ col.pc \in {"goto", "evaluate", "scroll"}
    /\ col' = IF CollectCatch.thrown
              THEN [col EXCEPT !.pc = "closing", !.exit = "error", !.thrown = "Target closed"]
              ELSE [col EXCEPT !.pc = "closing", !.exit = "error", !.result = CollectCatch.links]
    /\ UNCHANGED <<extractor, args, history, disk, run, ext, san, batchAll, cm, hm, cron>>

\* Line 264: the loop condition.
CollectLoop ==
    /\ col.pc = "loop"
    /\ col' = IF Len(col.reelLinks) < col.maxVideos /\ col.elapsed < col.scrollTimeout
              THEN [col EXCEPT !.pc = "evaluate"]
              ELSE CollectExit(col, "condition")
    /\ UNCHANGED <<extractor, args, history, disk, run, ext, san, batchAll, cm, hm, cron>>

\* The counts of the last four rounds (with the count the loop starts with
\* as the first): what three unchanged rounds in a row are read from.
LastRounds(counts) == SubSeq(counts, IF Len(counts) > 4 THEN Len(counts) - 3 ELSE 1, Len(counts))

\* Lines 265-279: the anchors are read; reelLinks becomes what the DOM holds.
Evaluated ==
    /\ col.pc = "evaluate"
    /\ LET links == Dedup(Dedup(SubSeq(Anchors(col.username), col.dropped + 1, col.dom)))
           c == [col EXCEPT !.prevCount = Len(col.reelLinks), !.reelLinks = links,
                            !.counts = LastRounds(Append(@, Len(links)))]
       IN col' = IF Len(links) >= col.maxVideos THEN CollectExit(c, "max")
                 ELSE [c EXCEPT !.pc = "scroll"]
    /\ UNCHANGED <<extractor, args, history, disk, run, ext, san, batchAll, cm, hm, cron>>

\* A stall counter that a changed count does not reset.
NextStableNoReset(c) ==
    IF Len(c.reelLinks) = c.prevCount THEN c.stableRounds + 1 ELSE c.stableRounds

\* Lines 284-289: stableRounds after the round.
NextStable(c) == IF Len(c.reelLinks) = c.prevCount THEN c.stableRounds + 1 ELSE 0

\* A stall limit of two rounds.
StallReachedEarly(c) == Len(c.reelLinks) = c.prevCount /\ c.stableRounds >= 2

\* Line 286: if (stableRounds >= 3) break, in the unchanged branch.
StallReached(c) == Len(c.reelLinks) = c.prevCount /\ c.stableRounds >= 3

\* Lines 281-290: the scroll and its 2000 ms wait are over (the clock has
\* advanced by one or two waits, more anchors may have loaded and the page
\* may have removed anchors scrolled out of view); the stall test.
Scrolled ==
    /\ col.pc = "scroll"
    /\ \E shown \in col.dom..Len(Anchors(col.username)), waits \in 1..2 :
       \E removed \in col.dropped..shown :
         LET c == [col EXCEPT !.dom = shown, !.dropped = removed, !.elapsed = @ + waits,
                              !.stableRounds = NextStable(col)]
         IN col' = IF StallReached(c) THEN CollectExit(c, "stall")
                   ELSE [c EXCEPT !.pc = "loop"]
    /\ UNCHANGED <<extractor, args, history, disk, run, ext, san, batchAll, cm, hm, cron>>

\* finally { await page.close() }: the promise settles.
CollectClosePage ==
    /\ col.pc = "closing"
    /\ extractor' = [extractor EXCEPT !.pages = @ - 1]
    /\ col' = [col EXCEPT !.pc = IF col.thrown = "" THEN "returned" ELSE "rejected"]
    /\ UNCHANGED <<args, history, disk, run, ext, san, batchAll, cm, hm, cron>>

NextCollect ==
    \/ CallCollectReelLinks
    \/ CollectCreatePageOk
    \/ CollectCreatePageFail
    \/ ProfileLoaded
    \/ CollectTryFails
    \/ CollectLoop
    \/ Evaluated
    \/ Scrolled
    \/ CollectClosePage

\* collectReelLinks(username, maxVideos, scrollTimeout) on an extractor that
\* was initialized, or was not; scrollTimeout counted in 2000 ms waits.
InitCollect ==
    /\ \E initialized \in BOOLEAN :
         extractor = [browser |-> initialized, context |-> initialized, pages |-> 0]
    /\ \E username \in {"natgeo", "bbcnews"}, maxVideos \in 0..(MaxLinks + 1),
          scrollTimeout \in {2, MaxWaits} :
         col = CollectIdle(username, maxVideos, scrollTimeout)
    /\ ext = NoExtract
    /\ san = NoSanitize
    /\ cm = [pc |-> "none"]
    /\ cron = [pc |-> "none"]
    /\ hm = [pc |-> "none"]
    /\ args = parseArgs(<<>>)
    /\ history = <<>>
    /\ disk = <<>>
    /\ run = [RunStart EXCEPT !.pc = "none"]
    /\ BatchNotStarted

SpecCollect == InitCollect /\ [][NextCollect]_vars

\* Every awaited call of collectReelLinks settles.
SpecCollectFair == SpecCollect /\ WF_vars(NextCollect)

\* extractFromPost or collectReelLinks, each called once.
InitPages == InitExtract \/ InitCollect

NextPages == NextExtract \/ NextCollect

SpecPages == InitPages /\ [][NextPages]_vars

\* ------------------------------------------------------------------------
\* Specification: batchDownload on a task list
\* ------------------------------------------------------------------------

\* The state on entry to batchDownload(list, baseDir, onProgress).
BatchEntry(list, keep) ==
    /\ tasks = list
    /\ bpc = "loop"
    /\ bi = 0
    /\ results = <<>>
    /\ downloaded = <<>>
    /\ failed = <<>>
    /\ completed = 0
    /\ progress = <<>>
    /\ xfer = [k \in DOMAIN list |-> IdleXfer]
    /\ files = <<>>
    /\ dirs = {}
    /\ audit = keep
    /\ hist = [k \in DOMAIN list |-> <<>>]
    /\ RunNotStarted

InitBatch == \E n \in 0..MaxTasks : BatchEntry(TaskList(n), FALSE)

NextBatch ==
    \/ BatchLoop
    \/ TransferStep
    \/ BatchSettled
    \/ BatchClassify

SpecBatch == InitBatch /\ [][NextBatch]_vars

\* ------------------------------------------------------------------------
\* Specification: one transfer, with the history of its attempts kept
\* ------------------------------------------------------------------------

InitTransfer == \E k \in 1..2 : BatchEntry(<<TaskOf(k)>>, TRUE)

SpecTransfer == InitTransfer /\ [][NextBatch]_vars

\* ------------------------------------------------------------------------
\* Properties of batchDownload and downloadVideo
\* ------------------------------------------------------------------------

Succeeded(r) == r.success

NotSucceeded(r) == ~r.success

\* The DownloadResult each task's downloadVideo call returned, in task order.
TransferValues == [k \in DOMAIN tasks |-> xfer[k].settled.value]

\* The fetch attempts task k has made, in order.
IsFetch(e) == e.ev = "fetch"

Attempts(k) == SelectSeq(hist[k], IsFetch)

IsWrite(e) == e.ev = "write"

Writes(k) == SelectSeq(hist[k], IsWrite)

FsErrors == {"EACCES mkdir", "ENOSPC write", "EIO stat"}

\* C1: when batchDownload returns, downloaded holds exactly the results of
\* the tasks whose transfer succeeded and failed exactly the results of the
\* others, each once and in task order, so that
\* downloaded.length + failed.length = tasks.length.
C1_BatchPartition ==
    bpc = "done" =>
        /\ \A k \in DOMAIN tasks : xfer[k].pc = "settled" /\ xfer[k].settled.status = "fulfilled"
        /\ downloaded = SelectSeq(TransferValues, Succeeded)
        /\ failed = SelectSeq(TransferValues, NotSucceeded)
        /\ Len(downloaded) + Len(failed) = Len(tasks)

\* Three tasks, only task 2 failing: 2 downloaded and 1 failed.
C1_Witness ==
    /\ bpc = "done"
    /\ Len(tasks) = 3
    /\ Len(downloaded) = 2
    /\ Len(failed) = 1
    /\ failed[1].shortCode = Code(2)
    /\ downloaded[1].shortCode = Code(1)
    /\ downloaded[2].shortCode = Code(3)

\* C2: a transfer makes at most MAX_RETRIES = 3 fetch attempts, only its
\* last attempt can be a successful one, and a transfer whose attempt
\* succeeded (the third one included) settles with success:true and size
\* equal to the bytes fetched and written, unless a file-system step after
\* the fetch threw.
C2_RetryCeiling ==
    \A k \in DOMAIN tasks :
        LET a == Attempts(k) IN
        /\ Len(a) <= 3
        /\ \A j \in 1..(Len(a) - 1) : a[j].err # ""
        /\ (xfer[k].pc = "settled" /\ Len(a) > 0 /\ a[Len(a)].err = "") =>
              LET v == xfer[k].settled.value IN
              \/ /\ v.success
                 /\ v.size = a[Len(a)].n
                 /\ Writes(k) = <<WriteEvent(v.size)>>
              \/ ~v.success /\ v.error \in {"Download failed: " \o e : e \in FsErrors}

\* Two failed attempts, then a successful third one.
C2_Witness ==
    \E k \in DOMAIN tasks :
        /\ xfer[k].pc = "settled"
        /\ Len(Attempts(k)) = 3
        /\ Attempts(k)[1].err # ""
        /\ Attempts(k)[2].err # ""
        /\ Attempts(k)[3].err = ""
        /\ xfer[k].settled.value.success
        /\ xfer[k].settled.value.size = AssetBytes(tasks[k].videoUrl)

\* C6: downloadVideo never rejects.  Every settled call is fulfilled with a
\* DownloadResult carrying its own task's shortCode and file path; it is
\* success:true only when every stage was passed (the directory exists and
\* the file holds the asset's bytes, which is the size reported), and
\* otherwise success:false with an error; and batchDownload returns only
\* after every task, failed or not, has settled.
C6_NeverRejects ==
    /\ \A k \in DOMAIN tasks :
          xfer[k].pc = "settled" =>
              /\ xfer[k].settled.status = "fulfilled"
              /\ LET v == xfer[k].settled.value IN
                 /\ v.shortCode = tasks[k].shortCode
                 /\ v.filePath = FilePath(tasks[k])
                 /\ IF v.success
                    THEN /\ v.error = ""
                         /\ UserDir(tasks[k]) \in dirs
                         /\ v.filePath \in DOMAIN files
                         /\ files[v.filePath] = v.size
                         /\ v.size = AssetBytes(tasks[k].videoUrl)
                    ELSE v.error # "" /\ v.size = NoSize
    /\ bpc = "done" => \A k \in DOMAIN tasks : xfer[k].pc = "settled"
    /\ \A j \in 1..Len(failed) : \E k \in DOMAIN tasks : failed[j].shortCode = tasks[k].shortCode

\* A batch in which one transfer failed at the write, one at the stat, and a
\* third one succeeded.
C6_Witness ==
    /\ bpc = "done"
    /\ \E j \in 1..Len(failed) : failed[j].error = "Download failed: ENOSPC write"
    /\ \E j \in 1..Len(failed) : failed[j].error = "Download failed: EIO stat"
    /\ Len(downloaded) >= 1

\* The transfers that have been started and have not settled.
Started == {k \in DOMAIN tasks : InFlight(k)}

\* C9: at every moment at most DOWNLOAD_BATCH_SIZE = 3 transfers have been
\* started and have not yet settled.
C9_BoundedConcurrency == Cardinality(Started) <= 3

\* More tasks than a batch holds, and a full batch in flight.
C9_Witness ==
    /\ Len(tasks) > DOWNLOAD_BATCH_SIZE
    /\ Cardinality(Started) = DOWNLOAD_BATCH_SIZE


\* C21: onProgress is called once per task: the calls so far are as many as
\* the tasks classified, the k-th call carries completed = k and total = the
\* number of tasks, and when batchDownload returns there is one call per task.
C21_ProgressOncePerTask ==
    /\ Len(progress) = completed
    /\ \A k \in DOMAIN progress :
          progress[k].completed = k /\ progress[k].total = Len(tasks)
    /\ bpc = "done" => Len(progress) = Len(tasks)

\* Four tasks, two batches: four calls, the last one (4, 4).
C21_Witness ==
    /\ bpc = "done"
    /\ Len(tasks) = 4
    /\ Len(progress) = 4
    /\ progress[4].completed = 4
    /\ progress[4].total = 4

\* C30: a transfer has been started only when every transfer of the batches
\* before its own has settled; and batchDownload returns only when every
\* task has settled, those next to and after a failed one included.
C30_BatchesInSequence ==
    /\ \A k \in DOMAIN tasks :
          xfer[k].pc # "idle" =>
              \A j \in DOMAIN tasks :
                  j <= ((k - 1) \div DOWNLOAD_BATCH_SIZE) * DOWNLOAD_BATCH_SIZE
                      => xfer[j].pc = "settled"
    /\ bpc = "done" => \A k \in DOMAIN tasks : xfer[k].pc = "settled"

\* The first transfer of the first batch failed; the other two of its batch
\* and the one of the second batch succeeded.
C30_Witness ==
    /\ bpc = "done"
    /\ Len(tasks) = 4
    /\ ~xfer[1].settled.value.success
    /\ \A k \in 2..4 : xfer[k].settled.value.success

IsTimed(e) == e.ev \in {"fetch", "wait"}

\* The fetch attempts of task k and the backoff waits between them, in order.
Timeline(k) == SelectSeq(hist[k], IsTimed)

\* C31: withRetry waits 1000 ms after the first failed attempt and 2000 ms
\* after the second, each wait standing between two attempts, and does not
\* wait after the third; a transfer that made three attempts has waited
\* 1000 + 2000 ms.
C31_BackoffDoubles ==
    \A k \in DOMAIN tasks :
        LET t == Timeline(k) IN
        /\ Len(t) <= 5
        /\ \A p \in DOMAIN t :
              IF p % 2 = 1 THEN t[p].ev = "fetch"
              ELSE /\ t[p].ev = "wait"
                   /\ t[p - 1].err # ""
                   /\ t[p].n = IF p = 2 THEN 1000 ELSE 2000
        /\ (Len(t) = 5 /\ t[5].err # "") => xfer[k].pc = "settled"
        /\ Len(Attempts(k)) = 3 => t[2].n + t[4].n = 1000 + 2 * 1000

\* Two failed attempts, waits of 1000 and 2000 ms, and a third attempt that
\* returned the asset; the transfer reports success with its size.
C31_Witness ==
    \E k \in DOMAIN tasks :
        /\ xfer[k].pc = "settled"
        /\ Len(Timeline(k)) = 5
        /\ Timeline(k)[1].err # ""
        /\ Timeline(k)[2] = WaitEvent(1000)
        /\ Timeline(k)[3].err # ""
        /\ Timeline(k)[4] = WaitEvent(2000)
        /\ Timeline(k)[5].err = ""
        /\ xfer[k].settled.value.success
        /\ xfer[k].settled.value.size = AssetBytes(tasks[k].videoUrl)

\* C32: a transfer whose three attempts all failed (a rejected fetch, a
\* non-ok status or an empty body) reports success:false with the error of
\* its last attempt, and nothing was written for it.
C32_LastErrorSurfaces ==
    \A k \in DOMAIN tasks :
        LET a == Attempts(k) IN
        (Len(a) = 3 /\ a[3].err # "") =>
            /\ xfer[k].pc = "settled"
            /\ xfer[k].settled.status = "fulfilled"
            /\ ~xfer[k].settled.value.success
            /\ xfer[k].settled.value.error = "Download failed: " \o a[3].err
            /\ Writes(k) = <<>>
            /\ Len(tasks) = 1 => files = <<>>

\* The attempts failed with a connection error, an empty body and a 403,
\* and the result carries the 403.
C32_Witness ==
    \E k \in DOMAIN tasks :
        /\ Len(Attempts(k)) = 3
        /\ Attempts(k)[1].err = "fetch failed"
        /\ Attempts(k)[2].err = "Empty response body"
        /\ Attempts(k)[3].err = "HTTP 403 Forbidden"
        /\ xfer[k].pc = "settled"
        /\ xfer[k].settled.value.error = "Download failed: HTTP 403 Forbidden"

\* ------------------------------------------------------------------------
\* Properties of cmdRun
\* ------------------------------------------------------------------------

\* The ShortCodes the history holds for the user of the current iteration.
HistoryCodes == getDownloadedShortCodes(history, User.username)

\* The link has a ShortCode that the history does not hold.
IsNewLink(link) ==
    /\ extractShortCode(link).some
    /\ extractShortCode(link).val \notin HistoryCodes

\* Every collected link that has a ShortCode has it in the history.
AllKnown ==
    \A j \in DOMAIN run.reelLinks :
        extractShortCode(run.reelLinks[j]).some
            => extractShortCode(run.reelLinks[j]).val \in HistoryCodes

\* The iteration is resolving posts or waiting for their transfers.
Working == run.pc \in {"resolve", "extractPage", "extracting", "transfer"}

\* C3: when every collected link's ShortCode is already in the user's
\* history, the iteration ends at the filter: the run goes straight on to the
\* next user with no task built, no post resolved (no page opened), no
\* transfer started, and the history and its file unchanged; and whenever
\* posts are being resolved or transferred, some collected link was new.
C3_AllKnownNoTasks ==
    /\ [](Working => ~AllKnown)
    /\ [][run.pc = "filtered" /\ AllKnown =>
            /\ run'.pc = "user"
            /\ run'.ui = run.ui + 1
            /\ run'.tasks = <<>>
            /\ run'.resolved = <<>>
            /\ run'.globalSkipped = run.globalSkipped + Len(run.reelLinks)
            /\ run'.globalDownloaded = run.globalDownloaded
            /\ history' = history
            /\ disk' = disk
            /\ extractor' = extractor]_vars

\* Two links were collected, both already in the history, and the run has
\* moved on with nothing resolved and the history as it was at the start.
C3_Witness ==
    /\ run.pc = "user"
    /\ run.ui = 2
    /\ Len(run.reelLinks) = 2
    /\ run.newLinks = <<>>
    /\ run.resolved = <<>>
    /\ run.tasks = <<>>
    /\ history = run.before
    /\ Len(Downloads(history, run.users[1].username)) = 2

\* C4: from the filter until the transfers return, newLinks is the collected
\* list restricted, in order, to the links whose ShortCode the history does
\* not hold; the links handed to extractFromPost are a prefix of it, all of
\* it once the transfers start; and no task carries a ShortCode the history
\* holds.
C4_OnlyNewLinksResolved ==
    (run.pc = "filtered" \/ Working) =>
        /\ run.newLinks = SelectSeq(run.reelLinks, IsNewLink)
        /\ Len(run.resolved) <= Len(run.newLinks)
        /\ run.resolved = SubSeq(run.newLinks, 1, Len(run.resolved))
        /\ run.pc = "transfer" => run.resolved = run.newLinks
        /\ \A j \in DOMAIN run.tasks : run.tasks[j].shortCode \notin HistoryCodes

\* Three links collected, one of them in the history: exactly the two others
\* were resolved and are being transferred.
C4_Witness ==
    /\ run.pc = "transfer"
    /\ Len(run.reelLinks) = 3
    /\ Cardinality(HistoryCodes) = 1
    /\ Len(run.resolved) = 2
    /\ Len(run.tasks) = 2

\* The names a run can process.
Usernames == {ConfigUsers[j].username : j \in DOMAIN ConfigUsers}

\* C5: at every moment of a run, the ShortCodes recorded for a user are the
\* ones recorded before the run plus the ShortCodes of the user's transfers
\* that returned success: true; the earlier records are still there,
\* unmodified, and nothing else was added.
C5_RecordsOnlySuccesses ==
    \A u \in Usernames :
        /\ getDownloadedShortCodes(history, u) =
               getDownloadedShortCodes(run.before, u)
                   \cup {p[2] : p \in {q \in run.succeeded : q[1] = u}}
        /\ Len(Downloads(history, u)) >= Len(Downloads(run.before, u))
        /\ SubSeq(Downloads(history, u), 1, Len(Downloads(run.before, u))) = Downloads(run.before, u)
        /\ Len(Downloads(history, u)) = Cardinality(getDownloadedShortCodes(history, u))

\* A batch with one successful and one failed transfer has returned, one
\* resolution had failed before, and only the successful transfer is recorded.
C5_Witness ==
    /\ run.pc = "saving"
    /\ Len(run.downloaded) = 1
    /\ Len(run.failed) = 1
    /\ run.globalFailed >= 1
    /\ Len(Downloads(history, User.username)) = Len(Downloads(run.before, User.username)) + 1

C10_Progress ==
    /\ run.pc \in {"transfer", "saving"} => run.resolved = run.newLinks
    /\ run.pc \in {"finally", "done"} /\ run.thrown = "" => run.ui = Len(run.users) + 1

\* What holds for every step for C10, `none` being what an empty collection
\* adds to the failed count.
C10_Step(none) ==
    /\ run.pc = "collected" /\ run.reelLinks = <<>> =>
          /\ run'.pc = "user"
          /\ run'.ui = run.ui + 1
          /\ run'.thrown = ""
          /\ run'.globalFailed = run.globalFailed + none
    /\ run.pc = "extracting" =>
          /\ run'.pc = "resolve"
          /\ run'.li = run.li + 1
          /\ run'.thrown = ""
          /\ run'.tasks = run.tasks => run'.globalFailed = run.globalFailed + 1
          /\ run'.tasks # run.tasks => run'.globalFailed = run.globalFailed
    /\ run.pc = "resolve" /\ run'.pc # "resolve" =>
          /\ run'.thrown = ""
          /\ \/ run'.pc = "extractPage"
             \/ /\ run.resolved = run.newLinks
                /\ run.tasks = <<>>
                /\ run'.pc = "user"
                /\ run'.ui = run.ui + 1
             \/ /\ run.resolved = run.newLinks
                /\ run.tasks # <<>>
                /\ run'.pc = "transfer"
    /\ run.pc = "transfer" =>
          /\ run'.pc = "saving"
          /\ run'.thrown = ""
          /\ Len(run'.downloaded) + Len(run'.failed) = Len(run.tasks)
    /\ run.pc = "saving" /\ run'.thrown = "" =>
          /\ run'.pc = "user"
          /\ run'.ui = run.ui + 1
          /\ run'.globalFailed = run.globalFailed + Len(run.failed)

C7_NeverThrows ==
    /\ extractor.context => ext.pc # "rejected"
    /\ ext.pc = "returned" =>
         \/ /\ ~ext.result.success
            /\ ext.result.videos = <<>>
            /\ ext.result.error # ""
         \/ /\ ext.result.success
            /\ Len(ext.result.videos) >= 1


\* ------------------------------------------------------------------------
\* Properties of the browsing session
\* ------------------------------------------------------------------------

\* cmdRun has returned or thrown.
RunEnded == run.pc \in {"done", "rejected", "returned", "exit"}

\* C11: when the run has returned or thrown, neither the browser process nor
\* the context it launched is still held.
C11_SessionReleased == RunEnded => ~extractor.browser /\ ~extractor.context


\* The operation has settled: its promise is resolved or rejected.
ExtractSettled == ext.pc \in {"returned", "rejected"}

CollectSettled == col.pc \in {"returned", "rejected"}

\* C12: when extractFromPost or collectReelLinks has settled, by a successful
\* return, the zero-asset return, the catch block or a rejection, no page it
\* opened is still open; and it never holds more than one page.
C12_PagesClosed ==
    /\ extractor.pages \in {0, 1}
    /\ ExtractSettled => extractor.pages = 0
    /\ CollectSettled => extractor.pages = 0
    /\ ext.pc \in {"goto", "popup", "settle", "play", "wait", "metadata", "closing"}
          => extractor.pages = 1
    /\ col.pc \in {"goto", "loop", "evaluate", "scroll", "closing"} => extractor.pages = 1

\* extractFromPost returned through its catch block after a page call threw
\* once responses had been captured, and its page is closed.
C12_Witness ==
    /\ ext.pc = "returned"
    /\ ext.result.error = "Extract error: Target closed"
    /\ Len(ext.captured) >= 1
    /\ extractor.pages = 0


\* The phase of the current profile a position of cmdRun belongs to:
\* 1 COLLECTING, 2 FILTERING, 3 RESOLVING, 4 TRANSFERRING, 5 RECORDING, and
\* 0 outside the handling of a profile.
Phase(pc) ==
    IF pc \in {"collectPage", "collecting"} THEN 1
    ELSE IF pc \in {"collected", "filtered"} THEN 2
    ELSE IF pc \in {"resolve", "extractPage", "extracting"} THEN 3
    ELSE IF pc = "transfer" THEN 4
    ELSE IF pc = "saving" THEN 5
    ELSE 0

\* C35: within a profile the phases follow one another in the order
\* COLLECTING, FILTERING, RESOLVING, TRANSFERRING, RECORDING, none entered
\* twice or out of turn; the transfer phase is entered only when every new
\* link has been resolved and its page closed; the history changes only when
\* the batch call returns; and a profile with no new link, or with no task
\* after the resolutions, goes on to the next profile at once.
C35_PhaseOrder ==
    [][LET p == Phase(run.pc)
           q == Phase(run'.pc)
       IN /\ (p > 0 /\ q > 0) => (run'.ui = run.ui /\ q \in {p, p + 1})
          /\ (p = 0 /\ q > 0) => q = 1
          /\ (q = 4 /\ p # 4) =>
                /\ p = 3
                /\ run.li > Len(run.newLinks)
                /\ extractor.pages = 0
                /\ run.tasks # <<>>
          /\ history' # history => (p = 4 /\ q = 5)
          /\ (run.pc = "filtered" /\ run.newLinks = <<>>) =>
                (run'.pc = "user" /\ run'.ui = run.ui + 1 /\ history' = history)
          /\ (run.pc = "resolve" /\ run.li > Len(run.newLinks) /\ run.tasks = <<>>) =>
                (run'.pc = "user" /\ run'.ui = run.ui + 1 /\ history' = history)
      ]_vars

\* The first profile is in its recording phase: of its three new links two
\* were resolved to tasks, and one of the two transfers succeeded.
C35_Witness ==
    /\ run.pc = "saving"
    /\ run.ui = 1
    /\ Len(run.newLinks) = 3
    /\ Len(run.tasks) = 2
    /\ Len(run.downloaded) = 1
    /\ Len(run.failed) = 1
    /\ run.globalFailed = 1

\* C36: during a run at most one page is open, and a page is open exactly
\* while the collectReelLinks call of the current profile or one
\* extractFromPost call of its resolution loop is under way: each call has
\* closed its page before the next one opens its own, within a profile and
\* from one profile to the next.
C36_OnePageAtATime ==
    /\ extractor.pages \in {0, 1}
    /\ extractor.pages = 1 <=> run.pc \in {"collecting", "extracting"}
    /\ run.pc \in {"collecting", "extracting"} => run.ui \in DOMAIN run.users
    /\ run.pc = "extracting" => run.li \in DOMAIN run.newLinks

\* The page of the second link's resolution is the one open page, after the
\* collection and the first resolution of the profile have closed theirs.
C36_Witness ==
    /\ run.pc = "extracting"
    /\ run.li = 2
    /\ Len(run.resolved) = 2
    /\ extractor.pages = 1
    /\ run.ui = 1

\* C37: the tasks built for a profile carry pairwise different ShortCodes
\* (and so pairwise different file paths).
C37_OneTaskPerShortCode ==
    \A i, j \in DOMAIN run.tasks :
        run.tasks[i].shortCode = run.tasks[j].shortCode => i = j

\* C38: in a run that is not a dry run, whenever a profile has been dealt
\* with, and so when the run ends normally, the totals add up to the number
\* of links collected so far: downloaded + failed + skipped = collected.
C38_TotalsAddUp ==
    (run.pc \in {"user", "done"} /\ ~dryRun) =>
        run.globalDownloaded + run.globalFailed + run.globalSkipped = run.collected

\* The run over both enabled users has ended: four links were collected, of
\* which one was skipped, one failed and two were downloaded.
C38_Witness ==
    /\ run.pc = "done"
    /\ ~dryRun
    /\ Len(run.users) = 2
    /\ run.collected = 4
    /\ run.globalSkipped = 1
    /\ run.globalFailed = 1
    /\ run.globalDownloaded = 2

\* The tracked users a run is to process, as the claim has it: the one named
\* by the first positional argument, or those whose flag is true.
NamedUsers ==
    LET Named(u) == u.username = Normalize(targetUsername.val)
    IN SelectSeq(ConfigUsers, Named)

EnabledUsers ==
    LET Flagged(u) == u.enabled = TRUE IN SelectSeq(ConfigUsers, Flagged)

\* C39: once the users are selected, a run without a username processes the
\* users whose enabled flag is true, in configuration order; a run with the
\* name of a tracked user processes that user alone, enabled or not; a run
\* with a name that is not tracked exits before the browser is launched,
\* with nothing processed.  The users are dealt with one after the other in
\* that order, all of them when the run ends normally.
C39_UserSelection ==
    (run.pc \notin {"none", "start"}) =>
        /\ ~targetUsername.some =>
              /\ run.pc # "exit"
              /\ IF EnabledUsers = <<>> THEN run.pc = "returned"
                 ELSE run.users = EnabledUsers
        /\ (targetUsername.some /\ NamedUsers # <<>>) =>
              /\ run.pc # "exit"
              /\ run.users = <<NamedUsers[1]>>
        /\ (targetUsername.some /\ NamedUsers = <<>>) =>
              /\ run.pc = "exit"
              /\ extractor = NoExtractor
              /\ run.users = <<>>
              /\ run.collected = 0
              /\ history = run.before
        /\ run.ui <= Len(run.users) + 1
        /\ run.pc \in {"collectPage", "collecting", "collected", "filtered", "resolve",
                       "extractPage", "extracting", "transfer", "saving"}
              => run.ui \in DOMAIN run.users
        /\ run.pc = "done" => run.ui = Len(run.users) + 1

\* `run paused`: the disabled user was processed alone, and the link of its
\* profile was collected.
C39_Witness ==
    /\ run.pc = "done"
    /\ targetUsername = Some("paused")
    /\ Len(run.users) = 1
    /\ run.users[1].username = "paused"
    /\ ~run.users[1].enabled
    /\ run.collected = 1

\* ------------------------------------------------------------------------
\* Properties of the captured map
\* ------------------------------------------------------------------------

\* The observations the listener does not discard: CDN .mp4 responses whose
\* descriptor is not audio-only.
Matching ==
    {j \in DOMAIN ext.observed :
        /\ ext.observed[j].cdn
        /\ ext.observed[j].mp4
        /\ ~parseEfgParam(ext.observed[j]).isAudio}

\* The matching observations whose normalized URL is cleanUrl.
ObservedFor(cleanUrl) == {j \in Matching : stripByteRangeParams(ext.observed[j]) = cleanUrl}

\* The first of the observations js that carries their greatest bitrate.
BestOf(js) ==
    CHOOSE j \in js :
        /\ \A k \in js : parseEfgParam(ext.observed[k]).bitrate
                            <= parseEfgParam(ext.observed[j]).bitrate
        /\ \A k \in js : parseEfgParam(ext.observed[k]).bitrate
                            = parseEfgParam(ext.observed[j]).bitrate => j <= k

\* C13: after any sequence of responses, the captured map has one entry per
\* normalized URL of the matching non-audio responses and no other entry;
\* the entry carries the bitrate and quality of the first observation with
\* the greatest bitrate for that URL; an audio-only response is not captured.
C13_OneEntryPerUrl ==
    /\ \A i, j \in DOMAIN ext.captured :
          ext.captured[i].url = ext.captured[j].url => i = j
    /\ {ext.captured[i].url : i \in DOMAIN ext.captured}
          = {stripByteRangeParams(ext.observed[j]) : j \in Matching}
    /\ \A i \in DOMAIN ext.captured :
          LET best == ext.observed[BestOf(ObservedFor(ext.captured[i].url))]
          IN /\ ext.captured[i].bitrate = parseEfgParam(best).bitrate
             /\ ext.captured[i].quality = parseEfgParam(best).quality
             /\ ~parseEfgParam(best).isAudio

\* Two byte ranges of one asset and its audio track were observed, and the
\* map holds the one entry of that asset.
C13_Witness ==
    /\ Len(ext.observed) = 3
    /\ \E i, j \in Matching :
          /\ i # j
          /\ ext.observed[i] # ext.observed[j]
          /\ stripByteRangeParams(ext.observed[i]) = stripByteRangeParams(ext.observed[j])
    /\ \E k \in DOMAIN ext.observed : parseEfgParam(ext.observed[k]).isAudio
    /\ Len(ext.captured) = 1
    /\ ext.captured[1].bitrate = 1


\* C33: a successful result lists the captured assets, each once, in
\* non-increasing bitrate order; its first entry has the greatest bitrate of
\* all video responses observed for the post, and the DownloadTask cmdRun
\* builds from the result carries the URL of that first entry.
C33_BestBitrateFirst ==
    (ext.pc = "returned" /\ ext.result.success) =>
        LET videos == ext.result.videos IN
        /\ Len(videos) = Len(ext.captured)
        /\ Len(videos) >= 1
        /\ {videos[j].url : j \in DOMAIN videos}
              = {ext.captured[j].url : j \in DOMAIN ext.captured}
        /\ \A j \in 1..(Len(videos) - 1) : videos[j].bitrate >= videos[j + 1].bitrate
        /\ \A j \in Matching : parseEfgParam(ext.observed[j]).bitrate <= videos[1].bitrate
        /\ LET task == TaskFor([username |-> "natgeo"], ext.url, videos[1])
           IN \E j \in Matching :
                 /\ task.videoUrl = stripByteRangeParams(ext.observed[j])
                 /\ \A k \in Matching : parseEfgParam(ext.observed[k]).bitrate
                                            <= parseEfgParam(ext.observed[j]).bitrate

\* The assets were captured in the order bitrate 0, 1, 2 and are returned
\* in the order 2, 1, 0.
C33_Witness ==
    /\ ext.pc = "returned"
    /\ ext.result.success
    /\ Len(ext.captured) = 3
    /\ ext.captured[1].bitrate = 0
    /\ ext.captured[2].bitrate = 1
    /\ ext.captured[3].bitrate = 2
    /\ ext.result.videos[1].bitrate = 2
    /\ ext.result.videos[3].bitrate = 0

\* C34: the links collectReelLinks holds only grow: a link it holds before a
\* step is among the links it holds after the step.
C34_LinksOnlyGrow ==
    [][\A j \in DOMAIN col.reelLinks :
          \E k \in DOMAIN col'.reelLinks : col'.reelLinks[k] = col.reelLinks[j]]_vars

\* ------------------------------------------------------------------------
\* A HistoryManager and its history file
\* ------------------------------------------------------------------------

\* What the managers' operations leave alone.
restVars == <<args, history, disk, extractor, run, ext, col, san, batchAll, cron>>

\* The records addRecord is called with: two for one ShortCode, which differ
\* in size, and one for another ShortCode.
Records(username) ==
    {OldRecord(username, Code(1)), [OldRecord(username, Code(1)) EXCEPT !.size = 2],
     OldRecord(username, Code(2))}

\* A call on the HistoryManager has ended: what it was, whether it threw,
\* what it returned, and this.data before it.
HistoryCalled(op, username, record, thrown, value) ==
    [op |-> op, username |-> username, record |-> record, thrown |-> thrown,
     value |-> value, before |-> hm.data]

\* load(): this.data is what the file holds, or { users: {} } when the file
\* is missing or cannot be parsed.
HistoryLoad ==
    /\ hm.pc = "live"
    /\ hm' = [hm EXCEPT !.data = Some(IF hm.file.some THEN hm.file.val ELSE <<>>),
                        !.last = HistoryCalled("load", "", None, FALSE, "")]
    /\ UNCHANGED <<restVars, cm>>

\* save(): throws when this.data is null, writes the file otherwise.
HistorySave ==
    /\ hm.pc = "live"
    /\ hm' = IF ~hm.data.some
             THEN [hm EXCEPT !.last = HistoryCalled("save", "", None, TRUE,
                                                    "History not loaded. Call load() first.")]
             ELSE [hm EXCEPT !.file = hm.data,
                             !.last = HistoryCalled("save", "", None, FALSE, "")]
    /\ UNCHANGED <<restVars, cm>>

\* addRecord(username, record): ensureUser throws when this.data is null.
HistoryAddRecord ==
    /\ hm.pc = "live"
    /\ \E username \in {"natgeo", "bbcnews"} :
       \E record \in Records(username) :
         hm' = IF ~hm.data.some
               THEN [hm EXCEPT !.last = HistoryCalled("addRecord", username, Some(record),
                                                      TRUE, "History not loaded.")]
               ELSE [hm EXCEPT !.data = Some(addRecord(hm.data.val, username, record)),
                               !.last = HistoryCalled("addRecord", username, Some(record),
                                                      FALSE, "")]
    /\ UNCHANGED <<restVars, cm>>

\* isDownloaded(username, shortCode): throws when this.data is null.
HistoryIsDownloaded ==
    /\ hm.pc = "live"
    /\ \E username \in {"natgeo", "bbcnews"} :
       \E record \in Records(username) :
         hm' = IF ~hm.data.some
               THEN [hm EXCEPT !.last = HistoryCalled("isDownloaded", username, Some(record),
                                                      TRUE, "History not loaded.")]
               ELSE [hm EXCEPT !.last =
                        HistoryCalled("isDownloaded", username, Some(record), FALSE,
                                      IF isDownloaded(hm.data.val, username, record.shortCode)
                                      THEN "true" ELSE "false")]
    /\ UNCHANGED <<restVars, cm>>

NextHistory ==
    \/ HistoryLoad
    \/ HistorySave
    \/ HistoryAddRecord
    \/ HistoryIsDownloaded

\* new HistoryManager(path), with no history file at the path.
InitHistory ==
    /\ hm = [pc |-> "live", data |-> None, file |-> None,
             last |-> [op |-> "new", username |-> "", record |-> None, thrown |-> FALSE,
                       value |-> "", before |-> None]]
    /\ cm = [pc |-> "none"]
    /\ cron = [pc |-> "none"]
    /\ args = parseArgs(<<>>)
    /\ history = <<>>
    /\ disk = <<>>
    /\ extractor = NoExtractor
    /\ run = [RunStart EXCEPT !.pc = "none"]
    /\ ext = NoExtract
    /\ col = NoCollect
    /\ san = NoSanitize
    /\ BatchNotStarted

SpecHistory == InitHistory /\ [][NextHistory]_vars

\* ------------------------------------------------------------------------
\* ConfigManager instances, DEFAULT_CONFIG and the config file
\* ------------------------------------------------------------------------

\* toLowerCase, on the letters the usernames here are written with.
LowerCase(ch) == IF ch = "A" THEN "a" ELSE IF ch = "B" THEN "b" ELSE ch

\* username.replace(/^@/, "").toLowerCase(): one leading '@' is removed.
normalizeUsername(username) ==
    LET stripped == IF username # <<>> /\ username[1] = "@" THEN Tail(username)
                    ELSE username
    IN [k \in 1..Len(stripped) |-> LowerCase(stripped[k])]

\* this.config.users of instance i: the array made by its last load(), or
\* the array of DEFAULT_CONFIG when the config object shares it.
UsersOf(i) == IF cm.inst[i].val.users = "shared" THEN cm.defaults ELSE cm.lists[i]

\* The array this.config.users of instance i refers to now holds list.
WithUsers(i, list) ==
    IF cm.inst[i].val.users = "shared" THEN [cm EXCEPT !.defaults = list]
    ELSE [cm EXCEPT !.lists[i] = list]

\* A call on instance i has ended: what it was, whether it threw, what it
\* returned, and the user list and maxVideosPerUser before it (none and 0
\* when nothing was loaded).
ConfigCalled(c, op, i, name, thrown, value) ==
    [c EXCEPT !.last = [op |-> op, inst |-> i, name |-> name, thrown |-> thrown,
                        value |-> value,
                        before |-> IF cm.inst[i].some THEN Some(UsersOf(i)) ELSE None,
                        beforeMax |-> IF cm.inst[i].some
                                      THEN cm.inst[i].val.maxVideosPerUser ELSE 0]]

\* users.findIndex(u => u.username === normalized), counted from 1; 0 for -1.
IndexOf(users, username) ==
    LET hits == {k \in DOMAIN users : users[k].username = normalizeUsername(username)}
    IN IF hits = {} THEN 0 ELSE CHOOSE k \in hits : \A j \in hits : k <= j

\* A load() whose defaults keep the users array of DEFAULT_CONFIG.
ConfigLoadShared(i) ==
    /\ cm.pc = "live"
    /\ i \in DOMAIN cm.inst
    /\ cm' = ConfigCalled(
                 IF cm.file.some
                 THEN [cm EXCEPT !.inst[i] = Some([maxVideosPerUser |->
                                                       cm.file.val.maxVideosPerUser,
                                                   users |-> "own"]),
                                 !.lists[i] = cm.file.val.users]
                 ELSE [cm EXCEPT !.inst[i] = Some([maxVideosPerUser |-> MaxVideosPerUser,
                                                   users |-> "shared"])],
                 "load", i, <<>>, FALSE, "")
    /\ UNCHANGED <<restVars, hm>>

\* load(): the config is the defaults overlaid with what the file holds and
\* the file's users, or the defaults with a new empty users array when the
\* file is missing or cannot be parsed.
ConfigLoad(i) ==
    /\ cm.pc = "live"
    /\ i \in DOMAIN cm.inst
    /\ cm' = ConfigCalled(
                 [cm EXCEPT !.inst[i] = Some([maxVideosPerUser |->
                                                  IF cm.file.some
                                                  THEN cm.file.val.maxVideosPerUser
                                                  ELSE MaxVideosPerUser,
                                              users |-> "own"]),
                            !.lists[i] = IF cm.file.some THEN cm.file.val.users ELSE <<>>],
                 "load", i, <<>>, FALSE, "")
    /\ UNCHANGED <<restVars, hm>>

\* save(): throws when nothing is loaded, writes the file otherwise.
ConfigSave(i) ==
    /\ cm.pc = "live"
    /\ i \in DOMAIN cm.inst
    /\ cm' = IF ~cm.inst[i].some
             THEN ConfigCalled(cm, "save", i, <<>>, TRUE, "Config not loaded. Call load() first.")
             ELSE ConfigCalled(
                      [cm EXCEPT !.file = Some([maxVideosPerUser |->
                                                    cm.inst[i].val.maxVideosPerUser,
                                                users |-> UsersOf(i)])],
                      "save", i, <<>>, FALSE, "")
    /\ UNCHANGED <<restVars, hm>>

\* get(): throws when nothing is loaded, returns the config otherwise.
ConfigGet(i) ==
    /\ cm.pc = "live"
    /\ i \in DOMAIN cm.inst
    /\ cm' = IF ~cm.inst[i].some
             THEN ConfigCalled(cm, "get", i, <<>>, TRUE, "Config not loaded. Call load() first.")
             ELSE ConfigCalled(cm, "get", i, <<>>, FALSE,
                               [maxVideosPerUser |-> cm.inst[i].val.maxVideosPerUser,
                                users |-> UsersOf(i)])
    /\ UNCHANGED <<restVars, hm>>

\* setMaxVideos(max): throws when nothing is loaded.
ConfigSetMaxVideos(i, max) ==
    /\ cm.pc = "live"
    /\ i \in DOMAIN cm.inst
    /\ cm' = IF ~cm.inst[i].some
             THEN ConfigCalled(cm, "setMaxVideos", i, <<>>, TRUE,
                               "Config not loaded. Call load() first.")
             ELSE ConfigCalled([cm EXCEPT !.inst[i].val.maxVideosPerUser = max],
                               "setMaxVideos", i, <<>>, FALSE, "")
    /\ UNCHANGED <<restVars, hm>>

\* An addUser that does not look for the normalized name.
ConfigAddUserAgain(i, name) ==
    /\ cm.pc = "live"
    /\ i \in DOMAIN cm.inst
    /\ name \in cm.names
    /\ cm.inst[i].some
    /\ LET user == [username |-> normalizeUsername(name), enabled |-> TRUE]
       IN cm' = ConfigCalled(WithUsers(i, Append(UsersOf(i), user)),
                             "addUser", i, name, FALSE, Some(user))
    /\ UNCHANGED <<restVars, hm>>

\* addUser(username): null when the normalized name is tracked, else the new
\* user, pushed at the end of the list and enabled.
ConfigAddUser(i, name) ==
    /\ cm.pc = "live"
    /\ i \in DOMAIN cm.inst
    /\ name \in cm.names
    /\ cm' = IF ~cm.inst[i].some
             THEN ConfigCalled(cm, "addUser", i, name, TRUE,
                               "Config not loaded. Call load() first.")
             ELSE IF IndexOf(UsersOf(i), name) # 0
             THEN ConfigCalled(cm, "addUser", i, name, FALSE, None)
             ELSE LET user == [username |-> normalizeUsername(name), enabled |-> TRUE]
                  IN ConfigCalled(WithUsers(i, Append(UsersOf(i), user)),
                                  "addUser", i, name, FALSE, Some(user))
    /\ UNCHANGED <<restVars, hm>>

\* A removeUser that cuts the list at the user found.
ConfigRemoveUserTail(i, name) ==
    /\ cm.pc = "live"
    /\ i \in DOMAIN cm.inst
    /\ name \in cm.names
    /\ cm.inst[i].some
    /\ LET idx == IndexOf(UsersOf(i), name)
       IN cm' = IF idx = 0 THEN ConfigCalled(cm, "removeUser", i, name, FALSE, FALSE)
                ELSE ConfigCalled(WithUsers(i, SubSeq(UsersOf(i), 1, idx - 1)),
                                  "removeUser", i, name, FALSE, TRUE)
    /\ UNCHANGED <<restVars, hm>>

\* removeUser(username): splice(idx, 1) of the user found, or false.
ConfigRemoveUser(i, name) ==
    /\ cm.pc = "live"
    /\ i \in DOMAIN cm.inst
    /\ name \in cm.names
    /\ cm' = IF ~cm.inst[i].some
             THEN ConfigCalled(cm, "removeUser", i, name, TRUE,
                               "Config not loaded. Call load() first.")
             ELSE LET users == UsersOf(i)
                      idx == IndexOf(users, name)
                  IN IF idx = 0 THEN ConfigCalled(cm, "removeUser", i, name, FALSE, FALSE)
                     ELSE ConfigCalled(
                              WithUsers(i, SubSeq(users, 1, idx - 1)
                                               \o SubSeq(users, idx + 1, Len(users))),
                              "removeUser", i, name, FALSE, TRUE)
    /\ UNCHANGED <<restVars, hm>>

\* toggleUser(username, enabled): sets the flag of the user found, or false.
ConfigToggleUser(i, name, enabled) ==
    /\ cm.pc = "live"
    /\ i \in DOMAIN cm.inst
    /\ name \in cm.names
    /\ cm' = IF ~cm.inst[i].some
             THEN ConfigCalled(cm, "toggleUser", i, name, TRUE,
                               "Config not loaded. Call load() first.")
             ELSE LET users == UsersOf(i)
                      idx == IndexOf(users, name)
                  IN IF idx = 0 THEN ConfigCalled(cm, "toggleUser", i, name, FALSE, FALSE)
                     ELSE ConfigCalled(
                              WithUsers(i, [users EXCEPT ![idx].enabled = enabled]),
                              "toggleUser", i, name, FALSE, TRUE)
    /\ UNCHANGED <<restVars, hm>>

\* findUser(username): the user found, or undefined.
ConfigFindUser(i, name) ==
    /\ cm.pc = "live"
    /\ i \in DOMAIN cm.inst
    /\ name \in cm.names
    /\ cm' = IF ~cm.inst[i].some
             THEN ConfigCalled(cm, "findUser", i, name, TRUE,
                               "Config not loaded. Call load() first.")
             ELSE LET idx == IndexOf(UsersOf(i), name)
                  IN ConfigCalled(cm, "findUser", i, name, FALSE,
                                  IF idx = 0 THEN None ELSE Some(UsersOf(i)[idx]))
    /\ UNCHANGED <<restVars, hm>>

\* getEnabledUsers(): users.filter(u => u.enabled).
ConfigGetEnabledUsers(i) ==
    /\ cm.pc = "live"
    /\ i \in DOMAIN cm.inst
    /\ cm' = IF ~cm.inst[i].some
             THEN ConfigCalled(cm, "getEnabledUsers", i, <<>>, TRUE,
                               "Config not loaded. Call load() first.")
             ELSE ConfigCalled(cm, "getEnabledUsers", i, <<>>, FALSE,
                               SelectSeq(UsersOf(i), IsEnabled))
    /\ UNCHANGED <<restVars, hm>>

\* The config file is deleted, or becomes unreadable.
ConfigFileLost ==
    /\ cm.pc = "live"
    /\ cm.file.some
    /\ cm' = ConfigCalled([cm EXCEPT !.file = None], "unlink", 1, <<>>, FALSE, "")
    /\ UNCHANGED <<restVars, hm>>

NextConfig ==
    \/ \E i \in 1..2 :
         \/ ConfigLoad(i)
         \/ ConfigSave(i)
         \/ ConfigGet(i)
         \/ ConfigGetEnabledUsers(i)
         \/ \E max \in {5} : ConfigSetMaxVideos(i, max)
         \/ \E name \in {<<"A">>, <<"@", "a">>, <<"@", "@", "a">>, <<"@", "B">>} :
              \/ ConfigAddUser(i, name)
              \/ ConfigRemoveUser(i, name)
              \/ ConfigFindUser(i, name)
              \/ \E enabled \in BOOLEAN : ConfigToggleUser(i, name, enabled)
    \/ ConfigFileLost

\* One new ConfigManager and the names "A", "@a", "@@a" to call it
\* with, or two new ConfigManagers on one path and the name "@B"; no
\* config file yet.
InitConfig ==
    /\ \E inst \in {<<None>>, <<None, None>>} :
         cm = [pc |-> "live", defaults |-> <<>>, inst |-> inst,
               lists |-> [i \in DOMAIN inst |-> <<>>], file |-> None,
               names |-> IF Len(inst) = 1
                         THEN {<<"A">>, <<"@", "a">>, <<"@", "@", "a">>}
                         ELSE {<<"@", "B">>},
               last |-> [op |-> "new", inst |-> 1, name |-> <<>>, thrown |-> FALSE,
                         value |-> "", before |-> None, beforeMax |-> 0]]
    /\ cron = [pc |-> "none"]
    /\ hm = [pc |-> "none"]
    /\ args = parseArgs(<<>>)
    /\ history = <<>>
    /\ disk = <<>>
    /\ extractor = NoExtractor
    /\ run = [RunStart EXCEPT !.pc = "none"]
    /\ ext = NoExtract
    /\ col = NoCollect
    /\ san = NoSanitize
    /\ BatchNotStarted

SpecConfig == InitConfig /\ [][NextConfig]_vars

\* ------------------------------------------------------------------------
\* The components, each in a scenario of its own
\* ------------------------------------------------------------------------

\* One call of extractFromPost or of collectReelLinks, or a sequence of
\* calls on ConfigManagers, or on a HistoryManager.
InitComponents == InitPages \/ InitConfig \/ InitHistory

NextComponents == NextPages \/ NextConfig \/ NextHistory

SpecComponents == InitComponents /\ [][NextComponents]_vars

\* ------------------------------------------------------------------------
\* sanitizeFilename, applied to one caption and one ShortCode
\* ------------------------------------------------------------------------

\* One character of each class the replacements of sanitizeFilename tell
\* apart: a letter, whitespace, the two tag marks, an emoji, the two
\* separators and an unsafe character.
CaptionChars == {"a", " ", "#", "@", "E", "_", ".", "/"}

\* The strings of at most n characters.
Strings(n) == UNION {[1..k -> CaptionChars] : k \in 0..n}

\* A caption one character short of MAX_FILENAME_LENGTH.
LongStem == [k \in 1..(MAX_FILENAME_LENGTH - 1) |-> "a"]

\* The captions: absent, short, and long ones around MAX_FILENAME_LENGTH.
Captions ==
    {None} \cup {Some(c) : c \in Strings(MaxCaption)}
           \cup {Some(LongStem \o c) : c \in Strings(MaxCaption - 1)}

\* Alphanumeric ShortCodes.
AlnumCodes == {<<"A">>, <<"b", "9">>}

CallSanitizeFilename(caption, shortCode) ==
    [pc |-> "called", caption |-> caption, shortCode |-> shortCode, result |-> <<>>]

\* The call returns.
SanitizeReturns ==
    /\ san.pc = "called"
    /\ san' = [san EXCEPT !.pc = "returned",
                          !.result = sanitizeFilename(san.caption, san.shortCode)]
    /\ UNCHANGED <<extractor, args, history, disk, run, ext, col, batchAll, cm, hm, cron>>

NextSanitize == SanitizeReturns

InitSanitize ==
    /\ \E caption \in Captions, shortCode \in AlnumCodes :
         san = CallSanitizeFilename(caption, shortCode)
    /\ args = parseArgs(<<>>)
    /\ history = <<>>
    /\ disk = <<>>
    /\ extractor = NoExtractor
    /\ run = [RunStart EXCEPT !.pc = "none"]
    /\ ext = NoExtract
    /\ col = NoCollect
    /\ cm = [pc |-> "none"]
    /\ cron = [pc |-> "none"]
    /\ hm = [pc |-> "none"]
    /\ BatchNotStarted

SpecSanitize == InitSanitize /\ [][NextSanitize]_vars

\* ------------------------------------------------------------------------
\* downloadVideo's filenames for two tasks of one owner
\* ------------------------------------------------------------------------

\* ShortCodes of the alphabet extractShortCode accepts: [A-Za-z0-9_-]+.
UrlCodes == {<<"A">>, <<"B">>, <<"B", "_", "A">>, <<"B", "-", "A">>}

\* Captions of posts.
PostCaptions ==
    {None} \cup {Some(c) : c \in UNION {[1..k -> {"x", "B", " "}] : k \in 1..3}}

NamedTask(caption, shortCode) ==
    [videoUrl |-> 1, username |-> "natgeo", shortCode |-> shortCode, caption |-> caption]

\* downloadVideo composes the path of the next task.
NameTask ==
    /\ san.pc = "naming"
    /\ Len(san.names) < Len(san.tasks)
    /\ san' = [san EXCEPT !.names = Append(@, FilePath(san.tasks[Len(san.names) + 1]).name)]
    /\ UNCHANGED <<extractor, args, history, disk, run, ext, col, batchAll, cm, hm, cron>>

NextNaming == NameTask

InitNaming ==
    /\ \E c1, c2 \in PostCaptions, s1, s2 \in UrlCodes :
         san = [pc |-> "naming", tasks |-> <<NamedTask(c1, s1), NamedTask(c2, s2)>>,
                names |-> <<>>]
    /\ args = parseArgs(<<>>)
    /\ history = <<>>
    /\ disk = <<>>
    /\ extractor = NoExtractor
    /\ run = [RunStart EXCEPT !.pc = "none"]
    /\ ext = NoExtract
    /\ col = NoCollect
    /\ cm = [pc |-> "none"]
    /\ cron = [pc |-> "none"]
    /\ hm = [pc |-> "none"]
    /\ BatchNotStarted

SpecNaming == InitNaming /\ [][NextNaming]_vars


\* ------------------------------------------------------------------------
\* Properties of collectReelLinks
\* ------------------------------------------------------------------------

\* The place of a link among the page's distinct links.
PageOrder(username, link) ==
    CHOOSE k \in DOMAIN Dedup(Anchors(username)) : Dedup(Anchors(username))[k] = link

RECURSIVE TrailingUnchanged(_)
TrailingUnchanged(counts) ==
    IF Len(counts) < 2 THEN 0
    ELSE IF counts[Len(counts)] # counts[Len(counts) - 1] THEN 0
    ELSE 1 + TrailingUnchanged(SubSeq(counts, 1, Len(counts) - 1))

C16_LoopTerminates ==
    /\ <>(col.pc \in {"returned", "rejected"})
    /\ [](col.exit \in {"condition", "max", "stall"} =>
            \/ Len(col.reelLinks) >= col.maxVideos
            \/ col.elapsed >= col.scrollTimeout
            \/ TrailingUnchanged(col.counts) >= 3)

\* The loop was left because the time ran out, with fewer links than asked
\* for and the count still changing.
C16_Witness ==
    /\ col.pc = "returned"
    /\ col.exit = "condition"
    /\ col.elapsed >= col.scrollTimeout
    /\ Len(col.reelLinks) < col.maxVideos
    /\ TrailingUnchanged(col.counts) = 0
    /\ Len(col.counts) >= 3

\* ------------------------------------------------------------------------
\* Properties of sanitizeFilename
\* ------------------------------------------------------------------------

\* C17: for every caption and alphanumeric ShortCode the result has none of
\* the characters / \ : * ? " < > |, no whitespace, and neither begins nor
\* ends with an underscore or a dot.
C17_SafeCharacters ==
    san.pc = "returned" =>
        /\ san.result # <<>>
        /\ \A k \in DOMAIN san.result :
              san.result[k] \notin UnsafeChars \cup WhitespaceChars
        /\ san.result[1] \notin {"_", "."}
        /\ san.result[Len(san.result)] \notin {"_", "."}

\* A caption that begins with a dot and holds an unsafe character.
C17_Witness ==
    /\ san.pc = "returned"
    /\ san.caption = Some(<<".", "a", "/", "a">>)
    /\ san.result = <<"a", "_", "a", "_">> \o san.shortCode

\* The places of s that hold a tag mark.
Marks(s) == {k \in DOMAIN s : s[k] \in {"#", "@"}}

\* C18 (amended): every '#' and every '@' of the result stands alone, that
\* is, it is immediately followed by a separator '_': no '#' or '@' of the
\* result is followed by a character of a tag or a name.
C18_MarksStandAlone ==
    san.pc = "returned" =>
        \A k \in Marks(san.result) :
            k < Len(san.result) /\ san.result[k + 1] = "_"

\* C18 (as stated): no '#' and no '@' immediately followed by a
\* non-whitespace character is in the result.
C18_AsStated ==
    san.pc = "returned" =>
        \A k \in Marks(san.result) :
            k < Len(san.result) => san.result[k + 1] \in WhitespaceChars

\* A caption with a hashtag and a lone '#': the hashtag is gone, the lone
\* '#' is in the result.
C18_Witness ==
    /\ san.pc = "returned"
    /\ san.caption = Some(<<"#", "a", " ", "#">>)
    /\ san.result = <<"#", "_">> \o san.shortCode

\* The caption gives no name: it is absent, or what is left of it without
\* emoji, hashtags and mentions has only whitespace, separators and unsafe
\* characters (this includes the empty and the whitespace-only caption).
Unusable(caption) ==
    \/ ~caption.some
    \/ LET rest == RemoveTagged(RemoveTagged(RemoveChars(caption.val, EmojiChars), "#"), "@")
       IN \A k \in DOMAIN rest :
              rest[k] \in WhitespaceChars \cup UnsafeChars \cup {"_", "."}

\* C19: the result is the ShortCode exactly when the caption is absent,
\* empty, whitespace-only or empty after cleaning; otherwise it ends with '_'
\* and the ShortCode, and is at most MAX_FILENAME_LENGTH + 1 + the length of
\* the ShortCode long.
C19_FallbackAndSuffix ==
    san.pc = "returned" =>
        LET n == Len(san.result)
            m == Len(san.shortCode)
        IN /\ (san.result = san.shortCode) <=> Unusable(san.caption)
           /\ ~Unusable(san.caption) =>
                 /\ n > m + 1
                 /\ SubSeq(san.result, n - m, n) = <<"_">> \o san.shortCode
                 /\ n <= MAX_FILENAME_LENGTH + 1 + m

\* A caption of MAX_FILENAME_LENGTH + 1 characters is cut, and the
\* underscore the cut ends with is dropped.
C19_Witness ==
    /\ san.pc = "returned"
    /\ san.caption = Some(LongStem \o <<" ", "a">>)
    /\ san.result = LongStem \o <<"_">> \o san.shortCode

\* C20: two tasks of one owner with different ShortCodes never get the same
\* filename.
C20_DistinctNames ==
    (san.pc = "naming" /\ Len(san.names) = 2) =>
        (san.tasks[1].shortCode # san.tasks[2].shortCode => san.names[1] # san.names[2])


\* C23: when the arguments of run include the --dry-run flag, no post is
\* resolved, no file is transferred, and no history record is added or saved.
C23_DryRunTouchesNothing ==
    "dry-run" \in DOMAIN args.flags =>
        /\ run.pc \notin {"resolve", "extractPage", "transfer", "saving"}
        /\ run.resolved = <<>>
        /\ run.succeeded = {}
        /\ history = run.before
        /\ disk = run.before

\* C29: at every moment of a run, the history file holds the ShortCode of
\* every successful transfer of the profiles before the one being processed:
\* whenever the run is cut short, what those profiles downloaded is on disk.
C29_SavedBeforeNextProfile ==
    \A j \in DOMAIN run.users :
        j < run.ui =>
            \A p \in run.succeeded :
                p[1] = run.users[j].username
                    => p[2] \in getDownloadedShortCodes(disk, p[1])

\* The second profile's links are being collected, and a new download of
\* the first profile is in the history file.
C29_Witness ==
    /\ run.pc = "collectPage"
    /\ run.ui = 2
    /\ \E p \in run.succeeded :
          /\ p[1] = run.users[1].username
          /\ p[2] \in getDownloadedShortCodes(disk, p[1])
          /\ p[2] \notin getDownloadedShortCodes(run.before, p[1])

\* ------------------------------------------------------------------------
\* Properties of HistoryManager and ConfigManager
\* ------------------------------------------------------------------------

\* C22: a user's list never holds two records with one ShortCode; addRecord
\* with a recorded ShortCode leaves the user's list as it was, with a new
\* ShortCode it appends the record and nothing else; the other users' lists
\* stay as they were; and isDownloaded and save leave every list as it was.
C22_AppendOnlyDeduplicated ==
    (hm.pc = "live" /\ hm.data.some) =>
        /\ \A u \in DOMAIN hm.data.val :
              \A i, j \in DOMAIN hm.data.val[u] :
                  hm.data.val[u][i].shortCode = hm.data.val[u][j].shortCode => i = j
        /\ (hm.last.op = "addRecord" /\ ~hm.last.thrown) =>
              LET before == Downloads(hm.last.before.val, hm.last.username)
                  after == Downloads(hm.data.val, hm.last.username)
                  known == \E j \in DOMAIN before :
                               before[j].shortCode = hm.last.record.val.shortCode
              IN /\ after = IF known THEN before ELSE Append(before, hm.last.record.val)
                 /\ \A u \in DOMAIN hm.data.val \ {hm.last.username} :
                       hm.data.val[u] = Downloads(hm.last.before.val, u)
        /\ (hm.last.op \in {"isDownloaded", "save"} /\ ~hm.last.thrown) =>
              hm.data = hm.last.before

\* The ShortCode of the call is recorded with size 1; the call brings size 2
\* and the record stays as it was.
C22_Witness ==
    /\ hm.pc = "live"
    /\ hm.last.op = "addRecord"
    /\ hm.last.username = "natgeo"
    /\ hm.last.record = Some([OldRecord("natgeo", Code(1)) EXCEPT !.size = 2])
    /\ hm.data.some
    /\ hm.data.val["natgeo"] = <<OldRecord("natgeo", Code(2)), OldRecord("natgeo", Code(1))>>
    /\ hm.data = hm.last.before

\* The config object of the ConfigManager the last call was made on, its
\* user list now and before the call, and the normalized name of the call.
LastUsers == UsersOf(cm.last.inst)

Tracked(users, username) == \E k \in DOMAIN users : users[k].username = username

\* C25: no two tracked users of a ConfigManager share a username, and an
\* addUser whose normalized name is tracked returns null and leaves the user
\* list as it was.
C25_UniqueUsernames ==
    cm.pc = "live" =>
        /\ \A i \in DOMAIN cm.inst :
              cm.inst[i].some =>
                  \A j, k \in DOMAIN UsersOf(i) :
                      UsersOf(i)[j].username = UsersOf(i)[k].username => j = k
        /\ ( /\ cm.last.op = "addUser"
             /\ cm.last.before.some
             /\ Tracked(cm.last.before.val, normalizeUsername(cm.last.name)) ) =>
                /\ ~cm.last.thrown
                /\ cm.last.value = None
                /\ LastUsers = cm.last.before.val

\* "a" is tracked, disabled, and addUser("A") has returned null.
C25_Witness ==
    /\ cm.pc = "live"
    /\ cm.last.op = "addUser"
    /\ cm.last.name = <<"A">>
    /\ ~cm.last.thrown
    /\ cm.last.value = None
    /\ cm.last.before = Some(<<[username |-> <<"a">>, enabled |-> FALSE]>>)
    /\ LastUsers = cm.last.before.val

LowerAll(name) == [k \in DOMAIN name |-> LowerCase(name[k])]

\* The two names differ at most by a leading '@' and by case.
Variant(x, y) ==
    \/ LowerAll(x) = LowerAll(y)
    \/ LowerAll(x) = <<"@">> \o LowerAll(y)
    \/ LowerAll(y) = <<"@">> \o LowerAll(x)

\* C26: findUser, removeUser and toggleUser called with the stored username
\* of a tracked user, or with a variant of it that differs only by a leading
\* '@' or by case, identify that user.
C26_MatchedUpToNormalization ==
    ( /\ cm.pc = "live"
      /\ cm.last.op \in {"findUser", "removeUser", "toggleUser"}
      /\ cm.last.before.some ) =>
        \A k \in DOMAIN cm.last.before.val :
            Variant(cm.last.name, cm.last.before.val[k].username) =>
                IF cm.last.op = "findUser"
                THEN cm.last.value = Some(cm.last.before.val[k])
                ELSE /\ cm.last.value = TRUE
                     /\ cm.last.op = "removeUser" =>
                           ~Tracked(LastUsers, cm.last.before.val[k].username)

C28_RemoveToggleEnabled ==
    (cm.pc = "live" /\ cm.last.before.some /\ ~cm.last.thrown) =>
        LET before == cm.last.before.val
            name == normalizeUsername(cm.last.name)
            Other(u) == u.username # name
            Flagged(u) == u.enabled = TRUE
        IN /\ cm.last.op \in {"removeUser", "toggleUser"} =>
                 /\ cm.last.value = Tracked(before, name)
                 /\ ~Tracked(before, name) => LastUsers = before
           /\ cm.last.op = "toggleUser" =>
                 /\ Len(LastUsers) = Len(before)
                 /\ \A k \in DOMAIN before :
                       /\ LastUsers[k].username = before[k].username
                       /\ Other(before[k]) => LastUsers[k] = before[k]
           /\ cm.last.op = "removeUser" => LastUsers = SelectSeq(before, Other)
           /\ cm.last.op = "getEnabledUsers" =>
                 /\ cm.last.value = SelectSeq(before, Flagged)
                 /\ LastUsers = before
           /\ cm.last.op \in {"removeUser", "toggleUser", "getEnabledUsers"} =>
                 cm.inst[cm.last.inst].val.maxVideosPerUser = cm.last.beforeMax

\* removeUser("@a") has taken "a" out of the list "a", "@a" and has left
\* the disabled "@a".
C28_Witness ==
    /\ cm.pc = "live"
    /\ cm.last.op = "removeUser"
    /\ cm.last.name = <<"@", "a">>
    /\ ~cm.last.thrown
    /\ cm.last.value = TRUE
    /\ cm.last.before = Some(<<[username |-> <<"a">>, enabled |-> TRUE],
                               [username |-> <<"@", "a">>, enabled |-> FALSE]>>)
    /\ LastUsers = <<[username |-> <<"@", "a">>, enabled |-> FALSE]>>

\* C24: a call on a component that is not initialized throws and returns no
\* result (extractFromPost and collectReelLinks without a context, the
\* ConfigManager and HistoryManager operations before load()), and the
\* component is as it was before the call.
C24_UninitializedThrows ==
    /\ (ext.pc \notin {"none", "idle"} /\ ~extractor.context) =>
          /\ ext.pc = "rejected"
          /\ ext.thrown = "Extractor not initialized"
          /\ ext.result = ExtractIdle(ext.url).result
          /\ extractor = NoExtractor
    /\ (col.pc \notin {"none", "idle"} /\ ~extractor.context) =>
          /\ col.pc = "rejected"
          /\ col.thrown = "Extractor not initialized"
          /\ col.result = <<>>
          /\ extractor = NoExtractor
    /\ ( /\ cm.pc = "live"
         /\ cm.last.op \notin {"new", "load", "unlink"}
         /\ ~cm.last.before.some ) =>
          /\ cm.last.thrown
          /\ cm.last.value = "Config not loaded. Call load() first."
          /\ cm.inst[cm.last.inst] = None
          /\ cm.lists[cm.last.inst] = <<>>
    /\ ( /\ hm.pc = "live"
         /\ hm.last.op \notin {"new", "load"}
         /\ ~hm.last.before.some ) =>
          /\ hm.last.thrown
          /\ hm.data = None

\* extractFromPost was called on an extractor without a context and has
\* thrown.
C24_Witness ==
    /\ ext.pc = "rejected"
    /\ ext.thrown = "Extractor not initialized"
    /\ ~extractor.context
    /\ extractor.pages = 0

\* ------------------------------------------------------------------------
\* The crontab: getCronStatus, installCronJob, uninstallCronJob
\* ------------------------------------------------------------------------

\* A crontab is the sequence of its lines, each ended by a newline; a text
\* is the sequence of the parts split("\n") cuts it into, so that the
\* output of `crontab -l` for the lines L is L followed by an empty part.
\* No line of the crontabs below starts or ends with white space: trim()
\* of a line is the line, and trim() of a text drops its empty parts at
\* both ends.

MaxCrontab == 8

\* What a call of the installer leaves alone.
cronRest == <<args, history, disk, extractor, run, ext, col, san, batchAll, cm, hm>>

CRON_COMMENT == "# ig-downloader auto-generated job"

CRON_END_COMMENT == "# ig-downloader end"

buildCronCommand(schedule, scriptPath, workDir) ==
    schedule \o " cd " \o workDir \o " && node " \o scriptPath
        \o " run >> ~/ig-downloader.log 2>&1"

\* String.prototype.includes and String.prototype.startsWith.
Includes(line, part) ==
    \E i \in 1..(Len(line) - Len(part) + 1) : SubSeq(line, i, i + Len(part) - 1) = part

StartsWith(line, part) ==
    Len(line) >= Len(part) /\ SubSeq(line, 1, Len(part)) = part

\* The value of HOME in the environment of the shell exec() starts.
HOME == "/root"

\* exec() hands `echo "<text>" | crontab -` to /bin/sh: between the double
\* quotes the shell replaces $HOME by the value of the variable. The text
\* has " escaped and nothing else; no line below holds a ", a backquote or
\* a backslash.
RECURSIVE ShellExpand(_)
ShellExpand(line) ==
    IF ~Includes(line, "$HOME") THEN line
    ELSE LET i == CHOOSE k \in 1..Len(line) :
                      /\ SubSeq(line, k, k + 4) = "$HOME"
                      /\ \A j \in 1..(k - 1) : SubSeq(line, j, j + 4) # "$HOME"
         IN  SubSeq(line, 1, i - 1) \o HOME \o ShellExpand(SubSeq(line, i + 5, Len(line)))

\* echo prints the text and a newline: the parts of the text become the
\* lines of the new crontab.
EchoToCrontab(parts) == Some([i \in DOMAIN parts |-> ShellExpand(parts[i])])

\* stdout of `crontab -l`, split; the call fails when there is no crontab.
CrontabList(file) == IF file.some THEN file.val \o <<"">> ELSE <<"">>

RECURSIVE ScanOurJob(_, _, _)
ScanOurJob(lines, inOurBlock, ourJob) ==
    IF lines = <<>> THEN ourJob
    ELSE LET line == Head(lines)
         IN  IF Includes(line, CRON_COMMENT)
                 THEN ScanOurJob(Tail(lines), TRUE, ourJob)
             ELSE IF Includes(line, CRON_END_COMMENT)
                 THEN ScanOurJob(Tail(lines), FALSE, ourJob)
             ELSE IF inOurBlock /\ line # "" /\ ~StartsWith(line, "#")
                 THEN ScanOurJob(Tail(lines), FALSE, Some(line))
             ELSE ScanOurJob(Tail(lines), inOurBlock, ourJob)

getCronStatus(file) ==
    IF ~file.some
        THEN [installed |-> FALSE, currentCrontab |-> <<>>, ourJob |-> None]
        ELSE LET ourJob == ScanOurJob(CrontabList(file), FALSE, None)
             IN  [installed |-> ourJob.some,
                  currentCrontab |-> CrontabList(file),
                  ourJob |-> ourJob]

\* The loop of installCronJob over the lines of an installed crontab.
RECURSIVE ReplaceBlock(_, _, _)
ReplaceBlock(lines, skipUntilEnd, newJob) ==
    IF lines = <<>> THEN <<>>
    ELSE LET line == Head(lines)
         IN  IF Includes(line, CRON_COMMENT)
                 THEN <<CRON_COMMENT, newJob, CRON_END_COMMENT>>
                          \o ReplaceBlock(Tail(lines), TRUE, newJob)
             ELSE IF Includes(line, CRON_END_COMMENT)
                 THEN ReplaceBlock(Tail(lines), FALSE, newJob)
             ELSE IF ~skipUntilEnd
                 THEN <<line>> \o ReplaceBlock(Tail(lines), skipUntilEnd, newJob)
             ELSE ReplaceBlock(Tail(lines), skipUntilEnd, newJob)

\* The loop of uninstallCronJob.
RECURSIVE RemoveBlock(_, _)
RemoveBlock(lines, inOurBlock) ==
    IF lines = <<>> THEN <<>>
    ELSE LET line == Head(lines)
         IN  IF Includes(line, CRON_COMMENT) THEN RemoveBlock(Tail(lines), TRUE)
             ELSE IF Includes(line, CRON_END_COMMENT) THEN RemoveBlock(Tail(lines), FALSE)
             ELSE IF ~inOurBlock THEN <<line>> \o RemoveBlock(Tail(lines), inOurBlock)
             ELSE RemoveBlock(Tail(lines), inOurBlock)

\* trim() of a text: the empty parts at both ends go; the text of empty
\* parts only becomes "", whose only part is empty.
RECURSIVE TrimStart(_)
TrimStart(parts) ==
    IF parts # <<>> /\ Head(parts) = "" THEN TrimStart(Tail(parts)) ELSE parts

RECURSIVE TrimEnd(_)
TrimEnd(parts) ==
    IF parts # <<>> /\ parts[Len(parts)] = ""
        THEN TrimEnd(SubSeq(parts, 1, Len(parts) - 1))
        ELSE parts

TrimText(parts) ==
    IF TrimEnd(TrimStart(parts)) = <<>> THEN <<"">> ELSE TrimEnd(TrimStart(parts))

\* replace(/\n{3,}/g, "\n\n"): between two lines, two or more empty parts
\* become one.
RECURSIVE CollapseBlank(_)
CollapseBlank(parts) ==
    IF Len(parts) < 2 THEN parts
    ELSE IF parts[1] = "" /\ parts[2] = "" THEN CollapseBlank(Tail(parts))
    ELSE <<Head(parts)>> \o CollapseBlank(Tail(parts))

CleanedCrontab(newLines) == TrimText(CollapseBlank(TrimText(newLines)))

CronCalled(op, schedule, value) == [op |-> op, schedule |-> schedule, value |-> value]

\* installCronJob(schedule, scriptPath, workDir); ok: `crontab -` succeeds.
InstallCronJob(schedule, scriptPath, workDir, ok) ==
    /\ cron.pc = "live"
    /\ ~cron.file.some \/ Len(cron.file.val) <= MaxCrontab
    /\ LET newJob == buildCronCommand(schedule, scriptPath, workDir)
           status == getCronStatus(cron.file)
           jobBlock == <<CRON_COMMENT, newJob, CRON_END_COMMENT>>
           newCrontab ==
               IF status.installed
                   THEN ReplaceBlock(status.currentCrontab, FALSE, newJob)
               ELSE IF status.currentCrontab # <<>>
                   THEN TrimText(status.currentCrontab) \o <<"">> \o jobBlock \o <<"">>
               ELSE jobBlock \o <<"">>
       IN  cron' = [cron EXCEPT
               !.file = IF ok THEN EchoToCrontab(newCrontab) ELSE @,
               !.last = CronCalled("install", schedule, ok)]
    /\ UNCHANGED cronRest

\* uninstallCronJob(); ok: `crontab -` or `crontab -r` succeeds.
UninstallCronJob(ok) ==
    /\ cron.pc = "live"
    /\ LET status == getCronStatus(cron.file)
           cleanedCrontab == CleanedCrontab(RemoveBlock(status.currentCrontab, FALSE))
       IN  IF ~status.installed
               THEN cron' = [cron EXCEPT !.last = CronCalled("uninstall", "", TRUE)]
               ELSE cron' = [cron EXCEPT
                        !.file = IF ~ok THEN @
                                 ELSE IF cleanedCrontab # <<"">>
                                     THEN EchoToCrontab(cleanedCrontab)
                                 ELSE None,
                        !.last = CronCalled("uninstall", "", ok)]
    /\ UNCHANGED cronRest

\* The schedules of the wizard's presets used here, and where the tool lives.
Schedules == {"0 3 * * *", "0 */6 * * *"}

ScriptPath == "/opt/ig/dist/cli.js"

WorkDir == "/opt/ig"

\* The crontabs the calls start from: none, and three without a block.
Crontabs ==
    { None,
      Some(<<"MAILTO=ops">>),
      Some(<<"# backups", "0 5 * * * tar czf $HOME/b.tgz /srv">>),
      Some(<<"MAILTO=ops", "", "", "30 1 * * * /usr/bin/certbot renew", "">>) }

NextCron ==
    \/ \E schedule \in Schedules, ok \in BOOLEAN :
           InstallCronJob(schedule, ScriptPath, WorkDir, ok)
    \/ \E ok \in BOOLEAN : UninstallCronJob(ok)

InitCron ==
    /\ \E file \in Crontabs :
           cron = [pc |-> "live", file |-> file, first |-> file,
                   last |-> CronCalled("none", "", TRUE)]
    /\ cm = [pc |-> "none"]
    /\ hm = [pc |-> "none"]
    /\ args = parseArgs(<<>>)
    /\ history = <<>>
    /\ disk = <<>>
    /\ extractor = NoExtractor
    /\ run = [RunStart EXCEPT !.pc = "none"]
    /\ ext = NoExtract
    /\ col = NoCollect
    /\ san = NoSanitize
    /\ BatchNotStarted

SpecCron == InitCron /\ [][NextCron]_vars

\* ------------------------------------------------------------------------
\* Properties of the crontab
\* ------------------------------------------------------------------------

LinesOf(file) == IF file.some THEN file.val ELSE <<>>

\* The positions of the start markers.
BlockStarts(lines) == {i \in DOMAIN lines : Includes(lines[i], CRON_COMMENT)}

IsJobLine(line) ==
    \E schedule \in Schedules : line = buildCronCommand(schedule, ScriptPath, WorkDir)

\* The positions a block takes: start marker, job line, end marker.
BlockLines(lines) == UNION {{i, i + 1, i + 2} : i \in BlockStarts(lines)}

\* The lines outside the block, blank lines left aside, in their order.
RECURSIVE Outside(_, _)
Outside(lines, i) ==
    IF i > Len(lines) THEN <<>>
    ELSE IF i \in BlockLines(lines) \/ lines[i] = "" THEN Outside(lines, i + 1)
    ELSE <<lines[i]>> \o Outside(lines, i + 1)

WellFormedBlock(lines, i) ==
    /\ i + 2 <= Len(lines)
    /\ lines[i] = CRON_COMMENT
    /\ IsJobLine(lines[i + 1])
    /\ lines[i + 2] = CRON_END_COMMENT

\* C40: after any sequence of installCronJob and uninstallCronJob calls the
\* crontab holds at most one block of start marker, job line and end
\* marker; after an install that returned true the block holds the job of
\* that call, after an uninstall that returned true there is no block, and
\* the lines outside the block are the lines the crontab started with.
C40_OneBlockRestPreserved ==
    cron.pc = "live" =>
        LET lines == LinesOf(cron.file)
        IN  /\ Cardinality(BlockStarts(lines)) <= 1
            /\ \A i \in BlockStarts(lines) : WellFormedBlock(lines, i)
            /\ \A i \in DOMAIN lines :
                   Includes(lines[i], CRON_END_COMMENT) => i - 2 \in BlockStarts(lines)
            /\ cron.last.op = "install" /\ cron.last.value =>
                   \E i \in BlockStarts(lines) :
                       lines[i + 1] = buildCronCommand(cron.last.schedule, ScriptPath, WorkDir)
            /\ cron.last.op = "uninstall" /\ cron.last.value => BlockStarts(lines) = {}
            /\ Outside(lines, 1) = Outside(LinesOf(cron.first), 1)

====
